---- MODULE Spec2Model ----
(***************************************************************************)
(* A model of GCPStorage (src/api/script/storage/gcp-storage.ts): the      *)
(* Firestore collections and the history bucket are the state, every       *)
(* facade operation is an action.                                          *)
(*                                                                         *)
(*   Spec      the operations on accounts, apps and collaborators, run one *)
(*             at a time, no backend failure.                              *)
(*   SpecPkg   the operations on deployments and package histories, run    *)
(*             one at a time; the updateDeployment calls that              *)
(*             updatePackageHistory and clearPackageHistory start without  *)
(*             returning their promise run on their own.                   *)
(*   SpecCommit  SpecPkg without updatePackageHistory as a call of its     *)
(*             own: histories built by commitPackage and                   *)
(*             clearPackageHistory only.                                   *)
(*   SpecConc  addApp, addCollaborator, removeCollaborator and transferApp *)
(*             requests on one app in flight together, a step being one    *)
(*             backend call of one request.                                *)
(*   SpecDep   deployments of two apps with keys the callers choose, and   *)
(*             getDeployment and updateDeployment as calls of their own.   *)
(*   SpecApp   Spec with getApp and updateApp as calls of their own.       *)
(*   SpecKey   access keys and the clock.                                  *)
(*   SpecPartial  addApp and addDeployment with a backend call that fails  *)
(*             at one of their steps.                                      *)
(*   SpecList  addApp, addCollaborator and removeCollaborator with getApps *)
(*             as a call of its own.                                       *)
(*   SpecKeyOps  access keys read, listed, removed and updated.            *)
(*   SpecCommitConc  commitPackage requests on one deployment in flight    *)
(*             together.                                                   *)
(*   SpecSetup the setup the constructor starts, its provisioning calls    *)
(*             landing one by one, backend failures, and operations        *)
(*             started before and after the setup promise settles.         *)
(*                                                                         *)
(* In every specification but SpecSetup the operations are taken after the *)
(* setup promise has resolved and the provisioning calls have landed; in   *)
(* every one but SpecSetup and SpecPartial no backend call fails.          *)
(***************************************************************************)
EXTENDS Integers, Sequences, FiniteSets, TLC

VARIABLES
    accountDocs,        \* collection "account":        id -> Account
    appDocs,            \* collection "app":            id -> App
    appPointerDocs,     \* collection "appPointer":     set of {accountId, appId}
    deploymentDocs,     \* collection "deployment":     id -> Deployment
    deploymentInfoDocs, \* collection "deploymentInfo": key -> {appId, deploymentId}
    blobs,              \* the history bucket:          deployment id -> file content
    detached,           \* updateDeployment calls running with nobody awaiting them
    last,               \* the last facade call and what it reported to its caller
    lastArgs,           \* the arguments of that call when it succeeded (package operations)
    returned,           \* the value that call resolved with (package operations)
    commitRun,          \* per deployment: the commitPackage calls made in a row since
                        \* addDeployment, and whether each of them succeeded
    requests,           \* the requests in flight (SpecConc, SpecSetup)
    createdUnder,       \* per deployment: the app addDeployment created it under
    accessKeyDocs,      \* collection "accessKey":      id -> AccessKey
    now,                \* the clock, new Date().getTime()
    setup,              \* the state of _setupPromise
    health,             \* the sentinel document and the sentinel blob
    provisioning        \* the backend calls of setup still in flight

depVars == <<deploymentDocs, deploymentInfoDocs, blobs, detached, createdUnder>>
keyVars == <<accessKeyDocs, now>>
setupVars == <<setup, health, provisioning>>
vars == <<accountDocs, appDocs, appPointerDocs, deploymentDocs, deploymentInfoDocs,
          blobs, detached, last, lastArgs, returned, commitRun, requests, createdUnder,
          accessKeyDocs, now, setup, health, provisioning>>

-----------------------------------------------------------------------------
(* Bounds of the model. *)

MaxApps == 2

\* Two accounts: enough for an owner and another account.
AccountIds == {1, 2}
AppIds == 1..MaxApps

\* The e-mail address of the account registered under id a (Account.email is unique).
EmailOf(a) == <<"mail", a>>
Emails == {EmailOf(a) : a \in AccountIds}
NameOf(n) == <<"app", n>>
Names == {NameOf(1), NameOf(2)}

-----------------------------------------------------------------------------
(* Documents. *)

EmptyMap == [e \in {} |-> e]

Put(f, k, v) == [x \in (DOMAIN f) \cup {k} |-> IF x = k THEN v ELSE f[x]]
Remove(f, k) == [x \in (DOMAIN f) \ {k} |-> f[x]]

\* A CollaboratorProperties value; isCurrentAccount = FALSE stands for the absent field.
Collaborator(accountId, permission, isCurrentAccount) ==
    [accountId |-> accountId, permission |-> permission, isCurrentAccount |-> isCurrentAccount]

AppPointer(accountId, appId) == [accountId |-> accountId, appId |-> appId]

\* storage.ErrorCode, with "OK" for a resolved promise.
OK == "OK"
None == 0

\* What the caller of a facade operation observes: which operation it was and the
\* kind of the error it was rejected with (OK when it resolved).
Result(op, err) == [op |-> op, err |-> err]

-----------------------------------------------------------------------------
(* Reads. *)

\* getAccount: NotFound when the document does not exist.
GetAccountErr(accountId) ==
    IF accountId \in DOMAIN accountDocs THEN OK ELSE "NotFound"

\* getAccountByEmail: the documents whose email equals the argument (docs[0] is
\* one of them); NotFound when the snapshot is empty.
AccountsByEmail(email) == {a \in DOMAIN accountDocs : accountDocs[a].email = email}

\* The collaborator entries of a map that carry accountId.
EntriesOf(collaborators, accountId) ==
    {e \in DOMAIN collaborators : collaborators[e].accountId = accountId}

\* getApp on a snapshot of the "app" collection.
GetAppErrIn(docs, accountId, appId) ==
    IF appId \notin DOMAIN docs THEN "NotFound"
    ELSE IF EntriesOf(docs[appId].collaborators, accountId) = {} THEN "NotFound"
    ELSE OK

\* The app getApp returns: the stored document with isCurrentAccount set on the
\* entry find() returns for accountId.
Annotate(app, accountId) ==
    LET mine == CHOOSE e \in EntriesOf(app.collaborators, accountId) : TRUE
    IN  [app EXCEPT !.collaborators[mine].isCurrentAccount = TRUE]

GetAppErr(accountId, appId) == GetAppErrIn(appDocs, accountId, appId)
GetApp(accountId, appId) == Annotate(appDocs[appId], accountId)

\* getApps: the apps the account's pointers name; a pointer to a missing document
\* makes doc.data() undefined (a TypeError, translated to Other), a pointed app
\* without the account in its map throws NotFound.
PointedApps(pointers, accountId) == {p.appId : p \in {q \in pointers : q.accountId = accountId}}

GetAppsErrIn(docs, pointers, accountId) ==
    LET ids == PointedApps(pointers, accountId)
    IN  IF \E i \in ids : i \notin DOMAIN docs THEN "Other"
        ELSE IF \E i \in ids : EntriesOf(docs[i].collaborators, accountId) = {} THEN "NotFound"
        ELSE OK

GetAppsIn(docs, pointers, accountId) ==
    {Annotate(docs[i], accountId) : i \in PointedApps(pointers, accountId)}

\* storage.NameResolver.isDuplicate: an app of that name is among the items.
isDuplicate(items, name) == \E item \in items : item.name = name

\* storage.getOwnerEmail: the e-mail of the entry with permission Owner.
OwnerEmails(app) == {e \in DOMAIN app.collaborators : app.collaborators[e].permission = "Owner"}
getOwnerEmail(app) == CHOOSE e \in OwnerEmails(app) : TRUE

-----------------------------------------------------------------------------
(* The documents the collaborator operations write. *)

NewAppCollaboratorsKeepingSupplied(account, accountId, supplied) ==
    Put(supplied, account.email, Collaborator(accountId, "Owner", FALSE))

\* addApp, lines 189-191: a fresh map with the creating account as Owner.
NewAppCollaborators(account, accountId, supplied) ==
    Put(EmptyMap, account.email, Collaborator(accountId, "Owner", FALSE))

TransferCollaboratorsKeepingOwner(collaborators, currentOwnerEmail, email, targetId) ==
    IF email \in DOMAIN collaborators
    THEN [collaborators EXCEPT ![email].permission = "Owner"]
    ELSE Put(collaborators, email, Collaborator(targetId, "Owner", FALSE))

\* transferApp, lines 369-383.
TransferCollaborators(collaborators, currentOwnerEmail, email, targetId) ==
    LET demoted == [collaborators EXCEPT ![currentOwnerEmail].permission = "Collaborator"]
    IN  IF email \in DOMAIN demoted
        THEN [demoted EXCEPT ![email].permission = "Owner"]
        ELSE Put(demoted, email, Collaborator(targetId, "Owner", FALSE))

\* addCollaborator, lines 414-417.
AddedCollaborators(collaborators, email, collaboratorId) ==
    Put(collaborators, email, Collaborator(collaboratorId, "Collaborator", FALSE))

\* removeCollaborator, lines 437-444: the checks on the entry to remove.
RemoveCollaboratorErrNoOwnerCheck(collaborators, email) ==
    IF email \notin DOMAIN collaborators THEN "NotFound" ELSE OK

RemoveCollaboratorErr(collaborators, email) ==
    IF email \notin DOMAIN collaborators THEN "NotFound"
    ELSE IF collaborators[email].permission = "Owner" THEN "Invalid"
    ELSE OK

\* removeCollaborator, line 446.
RemovedCollaborators(collaborators, email) == Remove(collaborators, email)

\* removeCollaborator, line 451: the pointer the operation deletes.
RemovedPointer(accountId, appId, removedAccountId) == AppPointer(accountId, appId)

-----------------------------------------------------------------------------
(* Facade operations, each run to completion. *)

Reply(op, err) ==
    /\ last' = Result(op, err)
    /\ lastArgs' = None
    /\ returned' = None
    /\ UNCHANGED <<depVars, commitRun, requests, keyVars, setupVars>>

\* addAccount: the id is a fresh uuid.
AddAccount(id, account) ==
    /\ id \notin DOMAIN accountDocs
    /\ accountDocs' = Put(accountDocs, id, [account EXCEPT !.id = id])
    /\ Reply("addAccount", OK)
    /\ UNCHANGED <<appDocs, appPointerDocs>>

\* addApp: the id is a fresh uuid.
AddApp(id, accountId, app) ==
    /\ id \notin DOMAIN appDocs
    /\ IF GetAccountErr(accountId) # OK
       THEN /\ Reply("addApp", "NotFound")
            /\ UNCHANGED <<accountDocs, appDocs, appPointerDocs>>
       ELSE LET account == accountDocs[accountId]
                doc == [id |-> id, name |-> app.name,
                        collaborators |-> NewAppCollaborators(account, accountId, app.collaborators)]
            IN  /\ appDocs' = Put(appDocs, id, doc)
                /\ appPointerDocs' = appPointerDocs \cup {AppPointer(accountId, id)}
                /\ Reply("addApp", OK)
                /\ UNCHANGED accountDocs

Fail(op, err) ==
    /\ Reply(op, err)
    /\ UNCHANGED <<accountDocs, appDocs, appPointerDocs>>

TransferApp(accountId, appId, email) ==
    IF GetAppErr(accountId, appId) # OK \/ AccountsByEmail(email) = {}
    THEN Fail("transferApp", "NotFound")
    ELSE \E targetId \in AccountsByEmail(email) :
        LET app == GetApp(accountId, appId)
        IN  IF email \in DOMAIN app.collaborators /\ app.collaborators[email].accountId = targetId
            THEN Fail("transferApp", "AlreadyExists")
            ELSE IF GetAppsErrIn(appDocs, appPointerDocs, targetId) # OK
            THEN Fail("transferApp", GetAppsErrIn(appDocs, appPointerDocs, targetId))
            ELSE IF isDuplicate(GetAppsIn(appDocs, appPointerDocs, targetId), app.name)
            THEN Fail("transferApp", "AlreadyExists")
            ELSE IF OwnerEmails(app) = {}
            THEN Fail("transferApp", "Other")
            ELSE LET isTargetAlreadyCollaborator == email \in DOMAIN app.collaborators
                     doc == [app EXCEPT !.collaborators =
                                TransferCollaborators(app.collaborators, getOwnerEmail(app),
                                                      email, targetId)]
                 IN  /\ appDocs' = Put(appDocs, appId, doc)
                     /\ appPointerDocs' =
                            IF isTargetAlreadyCollaborator THEN appPointerDocs
                            ELSE appPointerDocs \cup {AppPointer(targetId, appId)}
                     /\ Reply("transferApp", OK)
                     /\ UNCHANGED accountDocs

AddCollaborator(accountId, appId, email) ==
    IF GetAppErr(accountId, appId) # OK \/ AccountsByEmail(email) = {}
    THEN Fail("addCollaborator", "NotFound")
    ELSE \E collaboratorId \in AccountsByEmail(email) :
        LET app == GetApp(accountId, appId)
        IN  IF email \in DOMAIN app.collaborators
            THEN Fail("addCollaborator", "AlreadyExists")
            ELSE LET doc == [app EXCEPT !.collaborators =
                                AddedCollaborators(app.collaborators, email, collaboratorId)]
                 IN  /\ appDocs' = Put(appDocs, appId, doc)
                     /\ appPointerDocs' = appPointerDocs \cup {AppPointer(collaboratorId, appId)}
                     /\ Reply("addCollaborator", OK)
                     /\ UNCHANGED accountDocs

RemoveCollaborator(accountId, appId, email) ==
    IF GetAppErr(accountId, appId) # OK
    THEN Fail("removeCollaborator", "NotFound")
    ELSE LET app == GetApp(accountId, appId)
         IN  IF RemoveCollaboratorErr(app.collaborators, email) # OK
             THEN Fail("removeCollaborator", RemoveCollaboratorErr(app.collaborators, email))
             ELSE LET doc == [app EXCEPT !.collaborators =
                                 RemovedCollaborators(app.collaborators, email)]
                  IN  /\ appDocs' = Put(appDocs, appId, doc)
                      /\ appPointerDocs' = appPointerDocs \
                             {RemovedPointer(accountId, appId, app.collaborators[email].accountId)}
                      /\ Reply("removeCollaborator", OK)
                      /\ UNCHANGED accountDocs

-----------------------------------------------------------------------------
(* Inputs. *)

\* uuidv4(): an id no document has yet.
FreshAccountId == CHOOSE a \in AccountIds : a \notin DOMAIN accountDocs
FreshAppId == CHOOSE a \in AppIds : a \notin DOMAIN appDocs

\* The collaborator maps a caller may put in the app it passes to addApp.
SuppliedCollaborators ==
    {EmptyMap, Put(EmptyMap, EmailOf(1), Collaborator(1, "Owner", FALSE))}

AppInputs == {[name |-> n, collaborators |-> c] : n \in Names, c \in SuppliedCollaborators}

-----------------------------------------------------------------------------
(* Spec: the operations one at a time. *)

Init ==
    /\ accountDocs = EmptyMap
    /\ appDocs = EmptyMap
    /\ appPointerDocs = {}
    /\ deploymentDocs = EmptyMap
    /\ deploymentInfoDocs = EmptyMap
    /\ blobs = EmptyMap
    /\ detached = {}
    /\ last = Result("constructor", OK)
    /\ lastArgs = None
    /\ returned = None
    /\ commitRun = EmptyMap
    /\ requests = {}
    /\ createdUnder = EmptyMap
    /\ accessKeyDocs = EmptyMap
    /\ now = 0
    /\ setup = [state |-> "resolved", code |-> "none"]
    /\ health = [doc |-> TRUE, bucket |-> TRUE, blob |-> <<"health">>]
    /\ provisioning = {}

DoAddAccount ==
    /\ DOMAIN accountDocs # AccountIds
    /\ AddAccount(FreshAccountId, [id |-> None, email |-> EmailOf(FreshAccountId)])

DoAddApp ==
    /\ DOMAIN appDocs # AppIds
    /\ \E accountId \in AccountIds, app \in AppInputs : AddApp(FreshAppId, accountId, app)

DoTransferApp ==
    \E accountId \in AccountIds, appId \in AppIds, email \in Emails :
        TransferApp(accountId, appId, email)

DoAddCollaborator ==
    \E accountId \in AccountIds, appId \in AppIds, email \in Emails :
        AddCollaborator(accountId, appId, email)

DoRemoveCollaborator ==
    \E accountId \in AccountIds, appId \in AppIds, email \in Emails :
        RemoveCollaborator(accountId, appId, email)

Next ==
    \/ DoAddAccount
    \/ DoAddApp
    \/ DoTransferApp
    \/ DoAddCollaborator
    \/ DoRemoveCollaborator

Spec == Init /\ [][Next]_vars

-----------------------------------------------------------------------------
(* Deployments and package histories. *)

MAX_PACKAGE_HISTORY_LENGTH == 50

\* At most this many detached updateDeployment calls are in progress at once.
MaxDetached == 2

DeploymentIds == {1}

\* The value of a property is a sequence: a string is the sequence of its characters,
\* a number that of its digits; undefined (in memory, or missing in a document or in
\* JSON text) and null are sequences no string or number is.
Undefined == <<"undefined">>
Null == <<"null">>

DeploymentKeys == {<<"key1">>}

\* The package field of a deployment document: missing, or holding a package.
NoPackage == <<>>
SomePackage(pkg) == <<pkg>>

\* A storage.Package: its label, rollout and releasedBy.
Package(label, rollout, releasedBy) ==
    [label |-> label, rollout |-> rollout, releasedBy |-> releasedBy]

\* Number to decimal string and back, as "v" + n and parseInt do.
Digits == <<"0", "1", "2", "3", "4", "5", "6", "7", "8", "9">>
IsDigit(char) == \E d \in 1..10 : Digits[d] = char
DigitValue(char) == (CHOOSE d \in 1..10 : Digits[d] = char) - 1

RECURSIVE DecimalString(_)
DecimalString(n) ==
    IF n < 10 THEN <<Digits[n + 1]>>
    ELSE Append(DecimalString(n \div 10), Digits[(n % 10) + 1])

RECURSIVE ParseDigits(_, _)
ParseDigits(chars, acc) ==
    IF chars = <<>> \/ ~IsDigit(Head(chars)) THEN acc
    ELSE ParseDigits(Tail(chars), 10 * acc + DigitValue(Head(chars)))

\* parseInt: the number the leading digits spell, NaN (here -1) when there is none.
NaN == 0 - 1
ParseInt(chars) ==
    IF chars = <<>> \/ ~IsDigit(Head(chars)) THEN NaN ELSE ParseDigits(chars, 0)

\* The label "v<n>".
Label(n) == <<"v">> \o DecimalString(n)

\* getNextLabel, lines 668-675. A last entry without a label makes substring throw.
GetNextLabelErr(packageHistory) ==
    IF packageHistory # <<>> /\ packageHistory[Len(packageHistory)].label = Undefined
    THEN "Other" ELSE OK

GetNextLabel(packageHistory) ==
    IF Len(packageHistory) = 0 THEN Label(1)
    ELSE LET lastLabel == packageHistory[Len(packageHistory)].label
             lastVersion == ParseInt(Tail(lastLabel))
         IN  IF lastVersion = NaN THEN <<"v", "N", "a", "N">>
             ELSE Label(lastVersion + 1)

\* JSON.stringify of a history: an array of objects that hold the properties which
\* are not undefined; JSON.parse reads it back, a missing property reads undefined.
PackageProperties == {"label", "rollout", "releasedBy"}

StringifyPackage(pkg) == [k \in {f \in PackageProperties : pkg[f] # Undefined} |-> pkg[k]]
Stringify(history) == [i \in 1..Len(history) |-> StringifyPackage(history[i])]

ParsePackage(object) ==
    [k \in PackageProperties |-> IF k \in DOMAIN object THEN object[k] ELSE Undefined]
Parse(content) == [i \in 1..Len(content) |-> ParsePackage(content[i])]

\* getDeployment, lines 480-508. A document without a key makes doc(undefined) throw,
\* which gcpErrorHandler translates to Other.
GetDeploymentErr(accountId, appId, deploymentId) ==
    IF GetAppErr(accountId, appId) # OK THEN GetAppErr(accountId, appId)
    ELSE IF deploymentId \notin DOMAIN deploymentDocs THEN "NotFound"
    ELSE IF deploymentDocs[deploymentId].key = Undefined THEN "Other"
    ELSE IF deploymentDocs[deploymentId].key \notin DOMAIN deploymentInfoDocs THEN "NotFound"
    ELSE IF deploymentInfoDocs[deploymentDocs[deploymentId].key].appId # appId THEN "NotFound"
    ELSE OK

\* getPackageHistory, lines 616-624. A missing file makes download fail with 404.
GetPackageHistoryErr(accountId, appId, deploymentId) ==
    IF GetDeploymentErr(accountId, appId, deploymentId) # OK
    THEN GetDeploymentErr(accountId, appId, deploymentId)
    ELSE IF deploymentId \notin DOMAIN blobs THEN "NotFound"
    ELSE OK

GetPackageHistoryValue(deploymentId) == Parse(blobs[deploymentId])

\* A detached updateDeployment call: first its getDeployment, then its set.
Detached(accountId, appId, deployment) ==
    [accountId |-> accountId, appId |-> appId, deployment |-> deployment, pc |-> "getDeployment"]

\* The document updatePackageHistory passes to updateDeployment, line 659.
TailDeployment(stored, deploymentId, history) ==
    [id |-> deploymentId, key |-> Undefined, name |-> Undefined,
     package |-> SomePackage(history[Len(history)])]

\* The document clearPackageHistory passes to updateDeployment, lines 639-641.
ClearedDeployment(stored) == [stored EXCEPT !.package = NoPackage]

\* commitPackage, lines 598-608: the history it hands to updatePackageHistory.
CommittedHistoryUntrimmed(packageHistory, pkg) ==
    LET n == Len(packageHistory)
        cleared == IF n > 0 THEN [packageHistory EXCEPT ![n].rollout = Null]
                   ELSE packageHistory
    IN  Append(cleared, pkg)

CommittedHistoryKeepingRollout(packageHistory, pkg) ==
    LET pushed == Append(packageHistory, pkg)
        excess == Len(pushed) - MAX_PACKAGE_HISTORY_LENGTH
    IN  IF excess > 0 THEN SubSeq(pushed, excess + 1, Len(pushed)) ELSE pushed

CommittedHistory(packageHistory, pkg) ==
    LET n == Len(packageHistory)
        cleared == IF n > 0 THEN [packageHistory EXCEPT ![n].rollout = Null]
                   ELSE packageHistory
        pushed == Append(cleared, pkg)
        excess == Len(pushed) - MAX_PACKAGE_HISTORY_LENGTH
    IN  IF excess > 0 THEN SubSeq(pushed, excess + 1, Len(pushed)) ELSE pushed

Args(accountId, appId, deploymentId, history) ==
    [accountId |-> accountId, appId |-> appId, deploymentId |-> deploymentId,
     history |-> history]

\* The run of commitPackage calls on a deployment: started by addDeployment, counted
\* while an account that may use the app commits and every commit so far succeeded,
\* ended (n = -1) by any other call on the deployment.
RunAfter(op, err, args) ==
    LET d == args.deploymentId
    IN  IF op = "addDeployment"
        THEN IF err = OK THEN Put(commitRun, d, [n |-> 0, ok |-> TRUE]) ELSE commitRun
        ELSE IF d \notin DOMAIN commitRun THEN commitRun
        ELSE IF op = "commitPackage"
        THEN IF /\ GetAppErr(args.accountId, args.appId) = OK
                /\ commitRun[d].n >= 0
                /\ commitRun[d].ok
             THEN [commitRun EXCEPT ![d] = [n |-> @.n + 1, ok |-> err = OK]]
             ELSE commitRun
        ELSE [commitRun EXCEPT ![d] = [n |-> 0 - 1, ok |-> TRUE]]

ReplyPkg(op, err, args, value) ==
    /\ last' = Result(op, err)
    /\ lastArgs' = IF err = OK THEN args ELSE None
    /\ returned' = value
    /\ commitRun' = RunAfter(op, err, args)
    /\ UNCHANGED <<accountDocs, appDocs, appPointerDocs, requests, keyVars, setupVars>>

FailPkg(op, err, args) ==
    /\ ReplyPkg(op, err, args, None)
    /\ UNCHANGED depVars

\* addDeployment: the id is a fresh uuid.
AddDeployment(id, accountId, appId, deployment) ==
    /\ id \notin DOMAIN deploymentDocs
    /\ IF GetAppErr(accountId, appId) # OK
       THEN FailPkg("addDeployment", GetAppErr(accountId, appId),
                    Args(accountId, appId, id, <<>>))
       ELSE /\ deploymentDocs' = Put(deploymentDocs, id, [deployment EXCEPT !.id = id])
            /\ deploymentInfoDocs' = Put(deploymentInfoDocs, deployment.key,
                                         [appId |-> appId, deploymentId |-> id])
            /\ blobs' = Put(blobs, id, Stringify(<<>>))
            /\ createdUnder' = Put(createdUnder, id, appId)
            /\ UNCHANGED detached
            /\ ReplyPkg("addDeployment", OK, Args(accountId, appId, id, <<>>), id)

GetPackageHistory(accountId, appId, deploymentId) ==
    LET err == GetPackageHistoryErr(accountId, appId, deploymentId)
        args == Args(accountId, appId, deploymentId, <<>>)
    IN  IF err # OK THEN FailPkg("getPackageHistory", err, args)
        ELSE /\ ReplyPkg("getPackageHistory", OK, args, GetPackageHistoryValue(deploymentId))
             /\ UNCHANGED depVars

\* updatePackageHistory with a history that is null, line 652: !history.
UpdatePackageHistoryWithNull(accountId, appId, deploymentId) ==
    FailPkg("updatePackageHistory", "Invalid", Args(accountId, appId, deploymentId, <<>>))

UpdatePackageHistoryUnchecked(accountId, appId, deploymentId, history) ==
    LET args == Args(accountId, appId, deploymentId, history)
    IN  IF GetDeploymentErr(accountId, appId, deploymentId) # OK
        THEN FailPkg("updatePackageHistory",
                     GetDeploymentErr(accountId, appId, deploymentId), args)
        ELSE /\ detached' =
                    IF Len(history) = 0 THEN detached
                    ELSE detached \cup
                         {Detached(accountId, appId,
                                   TailDeployment(deploymentDocs[deploymentId],
                                                  deploymentId, history))}
             /\ blobs' = Put(blobs, deploymentId, Stringify(history))
             /\ UNCHANGED <<deploymentDocs, deploymentInfoDocs, createdUnder>>
             /\ ReplyPkg("updatePackageHistory", OK, args, None)

\* updatePackageHistory: the updateDeployment call of line 659 is started and not
\* returned, so the chain goes on to save the blob without it.
UpdatePackageHistory(accountId, appId, deploymentId, history) ==
    LET args == Args(accountId, appId, deploymentId, history)
    IN  IF Len(history) = 0
        THEN FailPkg("updatePackageHistory", "Invalid", args)
        ELSE IF GetDeploymentErr(accountId, appId, deploymentId) # OK
        THEN FailPkg("updatePackageHistory",
                     GetDeploymentErr(accountId, appId, deploymentId), args)
        ELSE /\ detached' = detached \cup
                    {Detached(accountId, appId,
                              TailDeployment(deploymentDocs[deploymentId], deploymentId, history))}
             /\ blobs' = Put(blobs, deploymentId, Stringify(history))
             /\ UNCHANGED <<deploymentDocs, deploymentInfoDocs, createdUnder>>
             /\ ReplyPkg("updatePackageHistory", OK, args, None)

\* clearPackageHistory: the updateDeployment call of line 641 is not returned either.
ClearPackageHistory(accountId, appId, deploymentId) ==
    LET args == Args(accountId, appId, deploymentId, <<>>)
    IN  IF GetDeploymentErr(accountId, appId, deploymentId) # OK
        THEN FailPkg("clearPackageHistory",
                     GetDeploymentErr(accountId, appId, deploymentId), args)
        ELSE /\ detached' = detached \cup
                    {Detached(accountId, appId, ClearedDeployment(deploymentDocs[deploymentId]))}
             /\ blobs' = Put(blobs, deploymentId, Stringify(<<>>))
             /\ UNCHANGED <<deploymentDocs, deploymentInfoDocs, createdUnder>>
             /\ ReplyPkg("clearPackageHistory", OK, args, None)

\* commitPackage: reads the history, labels and stamps the package, and hands the
\* new history to updatePackageHistory.
CommitPackage(accountId, appId, deploymentId, pkg) ==
    LET args == Args(accountId, appId, deploymentId, <<>>)
        err == GetPackageHistoryErr(accountId, appId, deploymentId)
    IN  IF err # OK THEN FailPkg("commitPackage", err, args)
        ELSE LET packageHistory == GetPackageHistoryValue(deploymentId)
             IN  IF GetNextLabelErr(packageHistory) # OK
                 THEN FailPkg("commitPackage", GetNextLabelErr(packageHistory), args)
                 ELSE IF GetAccountErr(accountId) # OK
                 THEN FailPkg("commitPackage", GetAccountErr(accountId), args)
                 ELSE LET committed == [pkg EXCEPT !.label = GetNextLabel(packageHistory),
                                                   !.releasedBy = accountDocs[accountId].email]
                          history == CommittedHistory(packageHistory, committed)
                      IN  /\ detached' = detached \cup
                                 {Detached(accountId, appId,
                                           TailDeployment(deploymentDocs[deploymentId],
                                                          deploymentId, history))}
                          /\ blobs' = Put(blobs, deploymentId, Stringify(history))
                          /\ UNCHANGED <<deploymentDocs, deploymentInfoDocs, createdUnder>>
                          /\ ReplyPkg("commitPackage", OK, args, committed)

\* A detached updateDeployment, lines 572-573: its getDeployment. When that fails the
\* rejection reaches nobody and the call is over.
DetachedGetDeployment(task) ==
    /\ task \in detached
    /\ task.pc = "getDeployment"
    /\ detached' =
          IF GetDeploymentErr(task.accountId, task.appId, task.deployment.id) = OK
          THEN (detached \ {task}) \cup {[task EXCEPT !.pc = "set"]}
          ELSE detached \ {task}
    /\ UNCHANGED <<accountDocs, appDocs, appPointerDocs, deploymentDocs,
                   deploymentInfoDocs, blobs, last, lastArgs, returned, commitRun,
                   requests, createdUnder, keyVars, setupVars>>

\* A detached updateDeployment, lines 574-576: its set overwrites the document.
DetachedSet(task) ==
    /\ task \in detached
    /\ task.pc = "set"
    /\ deploymentDocs' = Put(deploymentDocs, task.deployment.id, task.deployment)
    /\ detached' = detached \ {task}
    /\ UNCHANGED <<accountDocs, appDocs, appPointerDocs, deploymentInfoDocs, blobs,
                   last, lastArgs, returned, commitRun, requests, createdUnder,
                   keyVars, setupVars>>

-----------------------------------------------------------------------------
(* SpecPkg: one app of account 1, its deployments and their histories. *)

\* A history with the labels v1..vn, the rollout given on its last entry.
RECURSIVE History(_, _)
History(n, rollout) ==
    IF n = 0 THEN <<>>
    ELSE Append(History(n - 1, Null), Package(Label(n), rollout, EmailOf(1)))

\* The histories passed to updatePackageHistory: an empty one, short ones, one that is
\* full and one longer than MAX_PACKAGE_HISTORY_LENGTH, one with a rollout on an
\* entry that is not the last.
HistoryInputs ==
    { <<>>, History(1, <<"2", "5">>), History(2, Null),
      Append(History(1, <<"2", "5">>), Package(Label(2), Null, EmailOf(1))),
      History(MAX_PACKAGE_HISTORY_LENGTH, <<"2", "5">>),
      History(MAX_PACKAGE_HISTORY_LENGTH + 1, Null) }

\* The packages passed to commitPackage; label and releasedBy are set by the call.
PackageInputs ==
    {Package(Undefined, Undefined, Undefined), Package(Label(7), <<"2", "5">>, Undefined)}

DeploymentInputs ==
    {[id |-> None, key |-> k, name |-> <<"Staging">>, package |-> NoPackage] :
        k \in DeploymentKeys}

FreshDeploymentId == CHOOSE d \in DeploymentIds : d \notin DOMAIN deploymentDocs

DoAddFirstApp ==
    /\ DOMAIN appDocs = {}
    /\ AddApp(FreshAppId, 1, [name |-> NameOf(1), collaborators |-> EmptyMap])

DoAddDeployment ==
    /\ DOMAIN deploymentDocs # DeploymentIds
    /\ \E accountId \in AccountIds, appId \in DOMAIN appDocs, deployment \in DeploymentInputs :
          AddDeployment(FreshDeploymentId, accountId, appId, deployment)

DoGetPackageHistory ==
    \E accountId \in AccountIds, appId \in DOMAIN appDocs, deploymentId \in DeploymentIds :
        GetPackageHistory(accountId, appId, deploymentId)

DoUpdatePackageHistory ==
    /\ Cardinality(detached) < MaxDetached
    /\ \E accountId \in AccountIds, appId \in DOMAIN appDocs, deploymentId \in DeploymentIds,
          history \in HistoryInputs :
          UpdatePackageHistory(accountId, appId, deploymentId, history)

DoUpdatePackageHistoryWithNull ==
    \E accountId \in AccountIds, appId \in DOMAIN appDocs, deploymentId \in DeploymentIds :
        UpdatePackageHistoryWithNull(accountId, appId, deploymentId)

DoClearPackageHistory ==
    /\ Cardinality(detached) < MaxDetached
    /\ \E accountId \in AccountIds, appId \in DOMAIN appDocs, deploymentId \in DeploymentIds :
          ClearPackageHistory(accountId, appId, deploymentId)

DoCommitPackage ==
    /\ Cardinality(detached) < MaxDetached
    /\ \E accountId \in AccountIds, appId \in DOMAIN appDocs, deploymentId \in DeploymentIds,
          pkg \in PackageInputs :
          CommitPackage(accountId, appId, deploymentId, pkg)

DoDetached ==
    \E task \in detached : DetachedGetDeployment(task) \/ DetachedSet(task)

NextPkg ==
    \/ DoAddAccount
    \/ DoAddFirstApp
    \/ DoAddDeployment
    \/ DoGetPackageHistory
    \/ DoUpdatePackageHistory
    \/ DoUpdatePackageHistoryWithNull
    \/ DoClearPackageHistory
    \/ DoCommitPackage
    \/ DoDetached

SpecPkg == Init /\ [][NextPkg]_vars

\* SpecCommit: the same without updatePackageHistory as a call of its own, so that
\* every stored history was built by commitPackage and clearPackageHistory.
NextCommit ==
    \/ DoAddAccount
    \/ DoAddFirstApp
    \/ DoAddDeployment
    \/ DoGetPackageHistory
    \/ DoClearPackageHistory
    \/ DoCommitPackage
    \/ DoDetached

SpecCommit == Init /\ [][NextCommit]_vars

-----------------------------------------------------------------------------
(* SpecConc: addApp, addCollaborator, removeCollaborator and transferApp requests
   in flight together. A step is one backend call of one request; what a request
   holds in memory between its calls (the app it read, the account it looked up)
   is part of the request. *)

\* At most this many requests are in flight at once.
MaxRequests == 2

\* The app variable of a request: not read yet, or holding an app.
NoApp == <<>>
SomeApp(app) == <<app>>

Request(op, accountId, appId, email, pc, app) ==
    [op |-> op, accountId |-> accountId, appId |-> appId, email |-> email, pc |-> pc,
     app |-> app, targetId |-> None, writes |-> {}]

\* The request goes on to its next backend call.
Step(r, s) ==
    /\ requests' = (requests \ {r}) \cup {s}
    /\ UNCHANGED <<depVars, last, lastArgs, returned, commitRun, keyVars, setupVars>>

\* The request's promise settles.
Finish(r, err) ==
    /\ requests' = requests \ {r}
    /\ last' = Result(r.op, err)
    /\ lastArgs' = None
    /\ returned' = None
    /\ UNCHANGED <<depVars, commitRun, keyVars, setupVars>>

\* addApp, lines 183-184: the app is cloned and given its uuid before any call.
StartAddApp(id, accountId, app) ==
    /\ requests' = requests \cup
          {Request("addApp", accountId, id, <<>>, "getAccount",
                   SomeApp([id |-> id, name |-> app.name, collaborators |-> app.collaborators]))}
    /\ UNCHANGED <<accountDocs, appDocs, appPointerDocs, depVars, last, lastArgs,
                   returned, commitRun, keyVars, setupVars>>

\* transferApp, addCollaborator, removeCollaborator: the request starts with its reads.
StartCollaboratorOp(op, accountId, appId, email) ==
    /\ requests' = requests \cup {Request(op, accountId, appId, email, "read", NoApp)}
    /\ UNCHANGED <<accountDocs, appDocs, appPointerDocs, depVars, last, lastArgs,
                   returned, commitRun, keyVars, setupVars>>

\* addApp, line 187: getAccount, and the map built from it (lines 189-191).
AddAppGetAccount(r) ==
    /\ r.op = "addApp" /\ r.pc = "getAccount"
    /\ UNCHANGED <<accountDocs, appDocs, appPointerDocs>>
    /\ IF GetAccountErr(r.accountId) # OK
       THEN Finish(r, "NotFound")
       ELSE Step(r, [r EXCEPT !.pc = "setApp",
                              !.app = SomeApp([r.app[1] EXCEPT !.collaborators =
                                  NewAppCollaborators(accountDocs[r.accountId], r.accountId, @)])])

\* The reads a request makes first: getApp, and for transferApp and addCollaborator
\* getAccountByEmail next to it (q.all, lines 346-348 and 402-404).
ReadsDone(s) ==
    /\ s.app # NoApp
    /\ s.op = "removeCollaborator" \/ s.targetId # None

\* The checks made on what was read: lines 354-356, 410-412, 437-444.
CheckErr(s) ==
    LET collaborators == s.app[1].collaborators
    IN  IF s.op = "transferApp"
        THEN IF s.email \in DOMAIN collaborators /\ collaborators[s.email].accountId = s.targetId
             THEN "AlreadyExists" ELSE OK
        ELSE IF s.op = "addCollaborator"
        THEN IF s.email \in DOMAIN collaborators THEN "AlreadyExists" ELSE OK
        ELSE RemoveCollaboratorErr(collaborators, s.email)

\* The request after its checks: transferApp calls getApps; addCollaborator changes
\* the app it read and starts both writes; removeCollaborator changes the app it read
\* and starts its set.
Checked(s) ==
    LET app == s.app[1]
    IN  IF s.op = "transferApp" THEN [s EXCEPT !.pc = "getApps"]
        ELSE IF s.op = "addCollaborator"
        THEN [s EXCEPT !.pc = "write",
                       !.writes = {"setApp", "addAppPointer"},
                       !.app = SomeApp([app EXCEPT !.collaborators =
                                   AddedCollaborators(app.collaborators, s.email, s.targetId)])]
        ELSE [s EXCEPT !.pc = "setApp",
                       !.targetId = app.collaborators[s.email].accountId,
                       !.app = SomeApp([app EXCEPT !.collaborators =
                                   RemovedCollaborators(app.collaborators, s.email)])]

AfterRead(r, s) ==
    IF ~ReadsDone(s) THEN Step(r, s)
    ELSE IF CheckErr(s) # OK THEN Finish(r, CheckErr(s))
    ELSE Step(r, Checked(s))

ReadApp(r) ==
    /\ r.pc = "read" /\ r.app = NoApp
    /\ UNCHANGED <<accountDocs, appDocs, appPointerDocs>>
    /\ IF GetAppErr(r.accountId, r.appId) # OK
       THEN Finish(r, "NotFound")
       ELSE AfterRead(r, [r EXCEPT !.app = SomeApp(GetApp(r.accountId, r.appId))])

ReadAccountByEmail(r) ==
    /\ r.pc = "read" /\ r.op # "removeCollaborator" /\ r.targetId = None
    /\ UNCHANGED <<accountDocs, appDocs, appPointerDocs>>
    /\ IF AccountsByEmail(r.email) = {}
       THEN Finish(r, "NotFound")
       ELSE \E id \in AccountsByEmail(r.email) : AfterRead(r, [r EXCEPT !.targetId = id])

\* transferApp, lines 358-386: getApps of the target, the name check, and the map
\* with the owner changed.
TransferGetApps(r) ==
    /\ r.op = "transferApp" /\ r.pc = "getApps"
    /\ UNCHANGED <<accountDocs, appDocs, appPointerDocs>>
    /\ LET app == r.app[1]
       IN  IF GetAppsErrIn(appDocs, appPointerDocs, r.targetId) # OK
           THEN Finish(r, GetAppsErrIn(appDocs, appPointerDocs, r.targetId))
           ELSE IF isDuplicate(GetAppsIn(appDocs, appPointerDocs, r.targetId), app.name)
           THEN Finish(r, "AlreadyExists")
           ELSE IF OwnerEmails(app) = {}
           THEN Finish(r, "Other")
           ELSE Step(r, [r EXCEPT
                    !.pc = "setApp",
                    !.writes = IF r.email \in DOMAIN app.collaborators
                               THEN {} ELSE {"addAppPointer"},
                    !.app = SomeApp([app EXCEPT !.collaborators =
                                TransferCollaborators(app.collaborators, getOwnerEmail(app),
                                                      r.email, r.targetId)])])

\* The set of the app document (lines 193, 385, 446): the whole document is replaced
\* by the request's app.
SetApp(r) ==
    /\ r.pc = "setApp"
    /\ appDocs' = Put(appDocs, r.appId, r.app[1])
    /\ UNCHANGED <<accountDocs, appPointerDocs>>
    /\ IF r.op = "addApp" THEN Step(r, [r EXCEPT !.pc = "addAppPointer"])
       ELSE IF r.op = "removeCollaborator" THEN Step(r, [r EXCEPT !.pc = "removeAppPointer"])
       ELSE IF r.writes = {} THEN Finish(r, OK)
       ELSE Step(r, [r EXCEPT !.pc = "addAppPointer"])

\* addAppPointer (lines 195, 389), the last call of addApp and of transferApp.
AddPointer(r) ==
    /\ r.pc = "addAppPointer"
    /\ appPointerDocs' = appPointerDocs \cup
          {AppPointer(IF r.op = "addApp" THEN r.accountId ELSE r.targetId, r.appId)}
    /\ UNCHANGED <<accountDocs, appDocs>>
    /\ Finish(r, OK)

\* removeAppPointer (line 451), the last call of removeCollaborator.
RemovePointer(r) ==
    /\ r.pc = "removeAppPointer"
    /\ appPointerDocs' = appPointerDocs \ {RemovedPointer(r.accountId, r.appId, r.targetId)}
    /\ UNCHANGED <<accountDocs, appDocs>>
    /\ Finish(r, OK)

\* addCollaborator, lines 418-420: the set of the app and addAppPointer are started
\* together and land in either order.
AfterWrite(r, write) ==
    IF r.writes = {write} THEN Finish(r, OK)
    ELSE Step(r, [r EXCEPT !.writes = @ \ {write}])

WriteApp(r) ==
    /\ r.pc = "write" /\ "setApp" \in r.writes
    /\ appDocs' = Put(appDocs, r.appId, r.app[1])
    /\ UNCHANGED <<accountDocs, appPointerDocs>>
    /\ AfterWrite(r, "setApp")

WritePointer(r) ==
    /\ r.pc = "write" /\ "addAppPointer" \in r.writes
    /\ appPointerDocs' = appPointerDocs \cup {AppPointer(r.targetId, r.appId)}
    /\ UNCHANGED <<accountDocs, appDocs>>
    /\ AfterWrite(r, "addAppPointer")

\* uuidv4(): an id no document and no request in flight has.
UsedAppIds == (DOMAIN appDocs) \cup {r.appId : r \in {q \in requests : q.op = "addApp"}}
FreshAppIdOfRequest == CHOOSE a \in AppIds : a \notin UsedAppIds

DoStartAddApp ==
    /\ Cardinality(requests) < MaxRequests
    /\ UsedAppIds = {}
    /\ \E accountId \in AccountIds, app \in AppInputs :
          /\ app.collaborators = EmptyMap
          /\ StartAddApp(FreshAppIdOfRequest, accountId, app)

DoStartCollaboratorOp ==
    /\ Cardinality(requests) < MaxRequests
    /\ \E op \in {"transferApp", "addCollaborator", "removeCollaborator"},
          accountId \in AccountIds, appId \in DOMAIN appDocs, email \in Emails :
          StartCollaboratorOp(op, accountId, appId, email)

DoRead ==
    \E r \in requests : AddAppGetAccount(r) \/ ReadApp(r) \/ ReadAccountByEmail(r)

DoTransferGetApps == \E r \in requests : TransferGetApps(r)

DoSetApp == \E r \in requests : SetApp(r) \/ WriteApp(r)

DoPointer == \E r \in requests : AddPointer(r) \/ RemovePointer(r) \/ WritePointer(r)

NextConc ==
    \/ DoAddAccount
    \/ DoStartAddApp
    \/ DoStartCollaboratorOp
    \/ DoRead
    \/ DoTransferGetApps
    \/ DoSetApp
    \/ DoPointer

SpecConc == Init /\ [][NextConc]_vars

-----------------------------------------------------------------------------
(* SpecDep: deployments of two apps, each app owned by one account, with keys
   the callers choose. *)

MaxDeployments == 2

KeyedDeploymentIds == 1..MaxDeployments
ChosenKeys == {<<"key1">>, <<"key2">>}

KeyedDeploymentInputs ==
    {[id |-> None, key |-> k, name |-> <<"Staging">>, package |-> NoPackage] :
        k \in ChosenKeys}

\* getDeployment as a call of its own.
GetDeployment(accountId, appId, deploymentId) ==
    LET err == GetDeploymentErr(accountId, appId, deploymentId)
        args == Args(accountId, appId, deploymentId, <<>>)
    IN  IF err # OK THEN FailPkg("getDeployment", err, args)
        ELSE /\ ReplyPkg("getDeployment", OK, args, deploymentDocs[deploymentId])
             /\ UNCHANGED depVars

\* updateDeployment as a call of its own, lines 569-579: after getDeployment, the
\* document is replaced by the deployment passed.
UpdateDeployment(accountId, appId, deployment) ==
    LET err == GetDeploymentErr(accountId, appId, deployment.id)
        args == Args(accountId, appId, deployment.id, <<>>)
    IN  IF err # OK THEN FailPkg("updateDeployment", err, args)
        ELSE /\ deploymentDocs' = Put(deploymentDocs, deployment.id, deployment)
             /\ UNCHANGED <<deploymentInfoDocs, blobs, detached, createdUnder>>
             /\ ReplyPkg("updateDeployment", OK, args, None)

FreshKeyedDeploymentId == CHOOSE d \in KeyedDeploymentIds : d \notin DOMAIN deploymentDocs

\* Each account adds one app of its own.
DoAddOwnApp ==
    /\ DOMAIN appDocs # AppIds
    /\ \E accountId \in AccountIds :
          /\ \A i \in DOMAIN appDocs : EmailOf(accountId) \notin DOMAIN appDocs[i].collaborators
          /\ AddApp(FreshAppId, accountId,
                    [name |-> NameOf(accountId), collaborators |-> EmptyMap])

DoAddKeyedDeployment ==
    /\ DOMAIN deploymentDocs # KeyedDeploymentIds
    /\ \E accountId \in AccountIds, appId \in DOMAIN appDocs,
          deployment \in KeyedDeploymentInputs :
          AddDeployment(FreshKeyedDeploymentId, accountId, appId, deployment)

DoGetDeployment ==
    \E accountId \in AccountIds, appId \in DOMAIN appDocs,
       deploymentId \in KeyedDeploymentIds :
        GetDeployment(accountId, appId, deploymentId)

DoUpdateDeployment ==
    \E accountId \in AccountIds, appId \in DOMAIN appDocs,
       deploymentId \in KeyedDeploymentIds, deployment \in KeyedDeploymentInputs :
        UpdateDeployment(accountId, appId, [deployment EXCEPT !.id = deploymentId])

DoGetKeyedPackageHistory ==
    \E accountId \in AccountIds, appId \in DOMAIN appDocs,
       deploymentId \in KeyedDeploymentIds :
        GetPackageHistory(accountId, appId, deploymentId)

NextDep ==
    \/ DoAddAccount
    \/ DoAddOwnApp
    \/ DoAddKeyedDeployment
    \/ DoGetDeployment
    \/ DoUpdateDeployment
    \/ DoGetKeyedPackageHistory

SpecDep == Init /\ [][NextDep]_vars

-----------------------------------------------------------------------------
(* SpecApp: the collaborator operations together with getApp and updateApp as
   calls of their own. *)

\* getApp as a call of its own, lines 258-281.
GetAppCall(accountId, appId) ==
    /\ last' = Result("getApp", GetAppErr(accountId, appId))
    /\ lastArgs' = [accountId |-> accountId, appId |-> appId]
    /\ returned' = IF GetAppErr(accountId, appId) = OK THEN GetApp(accountId, appId) ELSE None
    /\ UNCHANGED <<accountDocs, appDocs, appPointerDocs, depVars, commitRun, requests,
                   keyVars, setupVars>>

\* updateApp, lines 328-338: after getApp, the document is replaced by the app passed.
UpdateApp(accountId, app) ==
    IF GetAppErr(accountId, app.id) # OK
    THEN Fail("updateApp", GetAppErr(accountId, app.id))
    ELSE /\ appDocs' = Put(appDocs, app.id, app)
         /\ Reply("updateApp", OK)
         /\ UNCHANGED <<accountDocs, appPointerDocs>>

\* The apps a caller passes to updateApp: an app as some account read it, renamed;
\* for an id no document has, an app without collaborators.
RenamedApps(appId) ==
    IF appId \in DOMAIN appDocs
    THEN {[GetApp(reader, appId) EXCEPT !.name = n] :
             reader \in {a \in AccountIds : GetAppErr(a, appId) = OK}, n \in Names}
    ELSE {[id |-> appId, name |-> n, collaborators |-> EmptyMap] : n \in Names}

DoGetApp ==
    \E accountId \in AccountIds, appId \in AppIds : GetAppCall(accountId, appId)

DoUpdateApp ==
    \E accountId \in AccountIds, appId \in AppIds :
        \E app \in RenamedApps(appId) : UpdateApp(accountId, app)

NextApp ==
    \/ DoAddAccount
    \/ DoAddApp
    \/ DoTransferApp
    \/ DoAddCollaborator
    \/ DoRemoveCollaborator
    \/ DoGetApp
    \/ DoUpdateApp

SpecApp == Init /\ [][NextApp]_vars

-----------------------------------------------------------------------------
(* SpecSetup: the setup promise, the health check and the translation of errors. *)

\* The kinds of storage.ErrorCode.
ErrorKinds ==
    {"NotFound", "AlreadyExists", "Invalid", "TooLarge", "Expired", "ConnectionFailed", "Other"}

\* error.code of a failing backend call; "undefined" is that of an error without a code.
FaultCodes ==
    {"404", "ENOENT", "409", "413", "ETIMEDOUT", "ESOCKETTIMEDOUT", "ECONNRESET", "500",
     "undefined"}
Outcomes == {"ok"} \cup FaultCodes

\* storage.storageError(kind), and an error of the backend or a plain Error.
StorageError(kind) == [type |-> "StorageError", code |-> kind]
BackendError(code) == [type |-> "Error", code |-> code]
NoError == [type |-> "none", code |-> OK]

\* gcpErrorHandler, lines 677-708: the kind of the StorageError it throws.
gcpErrorHandler(error) ==
    IF error.type = "StorageError" THEN error.code
    ELSE IF error.code \in {"404", "ENOENT"} THEN "NotFound"
    ELSE IF error.code = "409" THEN "AlreadyExists"
    ELSE IF error.code = "413" THEN "TooLarge"
    ELSE IF error.code \in {"ETIMEDOUT", "ESOCKETTIMEDOUT", "ECONNRESET"} THEN "ConnectionFailed"
    ELSE "Other"

\* .catch(GCPStorage.gcpErrorHandler) at the end of a chain.
Caught(error) == IF error = NoError THEN NoError ELSE StorageError(gcpErrorHandler(error))

\* What the caller of an operation sees of the error it settled with: its kind, or
\* "Raw" for an error that is no StorageError.
Observed(error) ==
    IF error = NoError THEN OK
    ELSE IF error.type = "StorageError" THEN error.code
    ELSE "Raw"

\* How a call ended: the error, and the number of backend calls it issued.
Ended(error, calls) == [error |-> error, calls |-> calls]

\* The rejection of _setupPromise, as every chain on it receives it.
SetupRejection == BackendError(setup.code)

\* getAccount, lines 108-120.
GetAccountEnd(accountId, fault) ==
    IF setup.state = "rejected" THEN Ended(Caught(SetupRejection), 0)
    ELSE IF fault # "ok" THEN Ended(Caught(BackendError(fault)), 1)
    ELSE IF accountId \notin DOMAIN accountDocs THEN Ended(Caught(StorageError("NotFound")), 1)
    ELSE Ended(NoError, 1)

\* addAccount, lines 96-106.
AddAccountEnd(fault) ==
    IF setup.state = "rejected" THEN Ended(Caught(SetupRejection), 0)
    ELSE IF fault # "ok" THEN Ended(Caught(BackendError(fault)), 1)
    ELSE Ended(NoError, 1)

\* blobHealthCheck, lines 42-56: download() of a missing file rejects with code 404,
\* and .catch(reject) hands every rejection on as it is.
BlobHealthCheckEnd(fault) ==
    IF fault # "ok" THEN BackendError(fault)
    ELSE IF ~health.bucket \/ health.blob = <<>> THEN BackendError("404")
    ELSE IF health.blob # <<"health">> THEN StorageError("ConnectionFailed")
    ELSE NoError

\* checkHealth, lines 29-40: the chain has no catch.
CheckHealthEnd(docFault, blobFault) ==
    IF setup.state = "rejected" THEN Ended(SetupRejection, 0)
    ELSE IF docFault # "ok" THEN Ended(BackendError(docFault), 1)
    ELSE IF ~health.doc THEN Ended(StorageError("ConnectionFailed"), 1)
    ELSE Ended(BlobHealthCheckEnd(blobFault), 2)

\* What a call leaves for the observer: the error's code when it was raw, the backend
\* calls issued, and whether calls of setup were still in flight.
CallArgs(end) ==
    [raw |-> IF Observed(end.error) = "Raw" THEN end.error.code ELSE "none",
     calls |-> end.calls,
     provisioning |-> provisioning # {}]

ReplySetup(op, end) ==
    /\ last' = Result(op, Observed(end.error))
    /\ lastArgs' = CallArgs(end)
    /\ returned' = None
    /\ UNCHANGED <<appDocs, appPointerDocs, depVars, commitRun, keyVars, setupVars>>

\* The operations that wait for _setupPromise before anything else.
AwaitingOps == {"addAccount", "getAccount", "checkHealth"}

\* An operation is called: its chain is attached to _setupPromise.
StartOp(op) ==
    /\ Cardinality(requests) < MaxRequests
    /\ [op |-> op] \notin requests
    /\ requests' = requests \cup {[op |-> op]}
    /\ UNCHANGED <<accountDocs, appDocs, appPointerDocs, depVars, last, lastArgs, returned,
                   commitRun, keyVars, setupVars>>

\* The chain of a waiting operation runs once _setupPromise has settled.
RunOp(request) ==
    /\ request \in requests
    /\ setup.state # "pending"
    /\ requests' = requests \ {request}
    /\ \E fault \in Outcomes, blobFault \in Outcomes :
          CASE request.op = "getAccount" ->
                  /\ \E accountId \in AccountIds :
                        ReplySetup("getAccount", GetAccountEnd(accountId, fault))
                  /\ UNCHANGED accountDocs
            [] request.op = "addAccount" ->
                  /\ ReplySetup("addAccount", AddAccountEnd(fault))
                  /\ IF AddAccountEnd(fault).error = NoError /\ DOMAIN accountDocs # AccountIds
                     THEN accountDocs' = Put(accountDocs, FreshAccountId,
                                             [id |-> FreshAccountId,
                                              email |-> EmailOf(FreshAccountId)])
                     ELSE UNCHANGED accountDocs
            [] request.op = "checkHealth" ->
                  /\ ReplySetup("checkHealth", CheckHealthEnd(fault, blobFault))
                  /\ UNCHANGED accountDocs

\* removeApp, lines 283-286: q(null), whatever the state of _setupPromise.
RemoveApp ==
    /\ ReplySetup("removeApp", Ended(NoError, 0))
    /\ UNCHANGED <<accountDocs, requests>>

\* updateApp with an app that has no id, line 329: throws before any promise exists.
UpdateAppWithoutId ==
    /\ ReplySetup("updateApp", Ended(BackendError("undefined"), 0))
    /\ UNCHANGED <<accountDocs, requests>>

\* setup, lines 80-92: the set of the sentinel document lands. q.all waits for this
\* call alone (createBucket is given a callback and returns nothing), so the promise
\* settles here: resolved on success and on code 409, rejected otherwise.
SetHealthDocLands(outcome) ==
    /\ "setHealthDoc" \in provisioning
    /\ provisioning' = provisioning \ {"setHealthDoc"}
    /\ health' = IF outcome = "ok" THEN [health EXCEPT !.doc = TRUE] ELSE health
    /\ setup' = IF outcome \in {"ok", "409"}
                THEN [state |-> "resolved", code |-> "none"]
                ELSE [state |-> "rejected", code |-> outcome]
    /\ UNCHANGED <<accountDocs, appDocs, appPointerDocs, depVars, last, lastArgs, returned,
                   commitRun, requests, keyVars>>

\* setup, lines 82-84: createBucket lands and its callback, which does not look at
\* the error, starts the save of the sentinel blob. An existing bucket answers 409.
CreateBucketLands(outcome) ==
    /\ "createBucket" \in provisioning
    /\ outcome = "409" => health.bucket
    /\ outcome = "ok" => ~health.bucket
    /\ provisioning' = (provisioning \ {"createBucket"}) \cup {"saveHealthBlob"}
    /\ health' = IF outcome = "ok" THEN [health EXCEPT !.bucket = TRUE] ELSE health
    /\ UNCHANGED <<accountDocs, appDocs, appPointerDocs, depVars, last, lastArgs, returned,
                   commitRun, requests, keyVars, setup>>

\* setup, line 83: the save of the sentinel blob lands; nobody receives its outcome.
SaveHealthBlobLands(outcome) ==
    /\ "saveHealthBlob" \in provisioning
    /\ provisioning' = provisioning \ {"saveHealthBlob"}
    /\ health' = IF outcome = "ok" /\ health.bucket
                 THEN [health EXCEPT !.blob = <<"health">>]
                 ELSE health
    /\ UNCHANGED <<accountDocs, appDocs, appPointerDocs, depVars, last, lastArgs, returned,
                   commitRun, requests, keyVars, setup>>

\* After the constructor: setup has issued its two calls, the promise is pending. The
\* backend is new, or holds what an earlier process left.
InitSetup ==
    /\ accountDocs = EmptyMap
    /\ appDocs = EmptyMap
    /\ appPointerDocs = {}
    /\ deploymentDocs = EmptyMap
    /\ deploymentInfoDocs = EmptyMap
    /\ blobs = EmptyMap
    /\ detached = {}
    /\ last = Result("constructor", OK)
    /\ lastArgs = None
    /\ returned = None
    /\ commitRun = EmptyMap
    /\ requests = {}
    /\ createdUnder = EmptyMap
    /\ accessKeyDocs = EmptyMap
    /\ now = 0
    /\ setup = [state |-> "pending", code |-> "none"]
    /\ \E doc \in BOOLEAN, bucket \in BOOLEAN, blob \in {<<>>, <<"health">>, <<"stale">>} :
          /\ bucket \/ blob = <<>>
          /\ health = [doc |-> doc, bucket |-> bucket, blob |-> blob]
    /\ provisioning = {"setHealthDoc", "createBucket"}

DoStartOp == \E op \in AwaitingOps : StartOp(op)
DoRunOp == \E request \in requests : RunOp(request)
DoSetHealthDocLands == \E outcome \in Outcomes : SetHealthDocLands(outcome)
DoCreateBucketLands == \E outcome \in Outcomes : CreateBucketLands(outcome)
DoSaveHealthBlobLands == \E outcome \in Outcomes : SaveHealthBlobLands(outcome)

NextSetup ==
    \/ DoStartOp
    \/ DoRunOp
    \/ RemoveApp
    \/ UpdateAppWithoutId
    \/ DoSetHealthDocLands
    \/ DoCreateBucketLands
    \/ DoSaveHealthBlobLands

SpecSetup == InitSetup /\ [][NextSetup]_vars

-----------------------------------------------------------------------------
(* SpecKey: access keys and the clock. *)

\* The clock runs from 0 to MaxTime.
MaxTime == 3

AccessKeyIds == {1, 2}
KeyNames == {<<"key-a">>, <<"key-b">>}
Expiries == {1, 2}

\* A storage.AccessKey.
AccessKey(id, name, createdBy, createdTime, expires) ==
    [id |-> id, name |-> name, createdBy |-> createdBy, createdTime |-> createdTime,
     expires |-> expires]

AccessKeyInputs == {AccessKey(None, n, None, None, e) : n \in KeyNames, e \in Expiries}

ReplyKey(op, err, args, value) ==
    /\ last' = Result(op, err)
    /\ lastArgs' = args
    /\ returned' = value
    /\ UNCHANGED <<accountDocs, appDocs, appPointerDocs, depVars, commitRun, requests,
                   setupVars>>

\* addAccessKey, lines 746-758: the id is a fresh uuid, createdBy and createdTime
\* are stamped, nothing is checked.
AddAccessKey(id, accountId, accessKey) ==
    /\ id \notin DOMAIN accessKeyDocs
    /\ accessKeyDocs' = Put(accessKeyDocs, id,
                            [accessKey EXCEPT !.id = id, !.createdBy = accountId,
                                              !.createdTime = now])
    /\ UNCHANGED now
    /\ ReplyKey("addAccessKey", OK, [name |-> accessKey.name, key |-> id], id)

\* The documents the query where("name", "==", accessKey) returns.
AccessKeysByName(name) == {k \in DOMAIN accessKeyDocs : accessKeyDocs[k].name = name}

IsExpiredStrictlyAfter(time, expires) == time > expires

\* getAccountIdFromAccessKey, line 148.
IsExpired(time, expires) == time >= expires

\* getAccountIdFromAccessKey, lines 136-155. snapshot.docs[0] is the first document
\* in the order of the document ids, which are uuids: any of the matching documents.
GetAccountIdFromAccessKey(name) ==
    /\ UNCHANGED keyVars
    /\ IF AccessKeysByName(name) = {}
       THEN ReplyKey("getAccountIdFromAccessKey", "NotFound",
                     [name |-> name, key |-> None], None)
       ELSE \E k \in AccessKeysByName(name) :
               IF IsExpired(now, accessKeyDocs[k].expires)
               THEN ReplyKey("getAccountIdFromAccessKey", "Expired",
                             [name |-> name, key |-> k], None)
               ELSE ReplyKey("getAccountIdFromAccessKey", OK,
                             [name |-> name, key |-> k], accessKeyDocs[k].createdBy)

\* Time passes.
Tick ==
    /\ now < MaxTime
    /\ now' = now + 1
    /\ UNCHANGED <<accountDocs, appDocs, appPointerDocs, depVars, last, lastArgs, returned,
                   commitRun, requests, accessKeyDocs, setupVars>>

FreshAccessKeyId == CHOOSE k \in AccessKeyIds : k \notin DOMAIN accessKeyDocs

DoAddAccessKey ==
    /\ DOMAIN accessKeyDocs # AccessKeyIds
    /\ \E accountId \in AccountIds, accessKey \in AccessKeyInputs :
          AddAccessKey(FreshAccessKeyId, accountId, accessKey)

DoGetAccountIdFromAccessKey == \E name \in KeyNames : GetAccountIdFromAccessKey(name)

NextKey ==
    \/ DoAddAccessKey
    \/ DoGetAccountIdFromAccessKey
    \/ Tick

SpecKey == Init /\ [][NextKey]_vars

-----------------------------------------------------------------------------
(* SpecKeyOps: the access keys of two accounts read, listed, removed and updated. *)

\* getAccessKey, removeAccessKey and updateAccessKey, lines 766, 791 and 806: the
\* check on the document read.
AccessKeyErr(accountId, accessKeyId) ==
    IF accessKeyId \notin DOMAIN accessKeyDocs THEN "NotFound"
    ELSE IF accessKeyDocs[accessKeyId].createdBy # accountId THEN "NotFound"
    ELSE OK

KeyArgs(accountId, accessKeyId) == [accountId |-> accountId, key |-> accessKeyId]

\* getAccessKey, lines 760-772.
GetAccessKey(accountId, accessKeyId) ==
    /\ UNCHANGED keyVars
    /\ ReplyKey("getAccessKey", AccessKeyErr(accountId, accessKeyId),
                KeyArgs(accountId, accessKeyId),
                IF AccessKeyErr(accountId, accessKeyId) = OK
                THEN accessKeyDocs[accessKeyId] ELSE None)

\* getAccessKeys, lines 774-783.
GetAccessKeys(accountId) ==
    /\ UNCHANGED keyVars
    /\ ReplyKey("getAccessKeys", OK, KeyArgs(accountId, None),
                {accessKeyDocs[k] : k \in {i \in DOMAIN accessKeyDocs :
                                              accessKeyDocs[i].createdBy = accountId}})

\* removeAccessKey, lines 785-798.
RemoveAccessKey(accountId, accessKeyId) ==
    /\ UNCHANGED now
    /\ accessKeyDocs' = IF AccessKeyErr(accountId, accessKeyId) = OK
                        THEN Remove(accessKeyDocs, accessKeyId) ELSE accessKeyDocs
    /\ ReplyKey("removeAccessKey", AccessKeyErr(accountId, accessKeyId),
                KeyArgs(accountId, accessKeyId), None)

\* updateAccessKey, line 809: doc.ref.update(accessKey) sets every field the object
\* passed has; createdBy is one of them when the caller put it there.
UpdatedAccessKey(stored, accessKey) ==
    [stored EXCEPT !.name = accessKey.name, !.expires = accessKey.expires,
                   !.createdBy = IF accessKey.createdBy = None THEN @
                                 ELSE accessKey.createdBy]

\* updateAccessKey, lines 800-813.
UpdateAccessKey(accountId, accessKey) ==
    /\ UNCHANGED now
    /\ accessKeyDocs' =
          IF AccessKeyErr(accountId, accessKey.id) = OK
          THEN Put(accessKeyDocs, accessKey.id,
                   UpdatedAccessKey(accessKeyDocs[accessKey.id], accessKey))
          ELSE accessKeyDocs
    /\ ReplyKey("updateAccessKey", AccessKeyErr(accountId, accessKey.id),
                KeyArgs(accountId, accessKey.id), None)

\* The keys passed to updateAccessKey: with a new name or expiry, with and without
\* a createdBy.
AccessKeyUpdates ==
    {AccessKey(k, n, c, None, e) :
        k \in AccessKeyIds, n \in KeyNames, c \in AccountIds \cup {None}, e \in Expiries}

DoGetAccessKey ==
    \E accountId \in AccountIds, accessKeyId \in AccessKeyIds :
        GetAccessKey(accountId, accessKeyId)

DoGetAccessKeys == \E accountId \in AccountIds : GetAccessKeys(accountId)

DoRemoveAccessKey ==
    \E accountId \in AccountIds, accessKeyId \in AccessKeyIds :
        RemoveAccessKey(accountId, accessKeyId)

DoUpdateAccessKey ==
    \E accountId \in AccountIds, accessKey \in AccessKeyUpdates :
        UpdateAccessKey(accountId, accessKey)

NextKeyOps ==
    \/ DoAddAccessKey
    \/ DoGetAccessKey
    \/ DoGetAccessKeys
    \/ DoRemoveAccessKey
    \/ DoUpdateAccessKey

SpecKeyOps == Init /\ [][NextKeyOps]_vars

-----------------------------------------------------------------------------
(* SpecCommitConc: commitPackage requests on one deployment in flight together. A
   step is one of the reads or the write of one request; a request that has
   settled stays in requests with what it reported. *)

CommitIds == 1..MaxRequests

\* A commitPackage call: the package it was given, the history it has read.
CommitRequest(id, accountId, appId, deploymentId, pkg) ==
    [op |-> "commitPackage", id |-> id, accountId |-> accountId, appId |-> appId,
     deploymentId |-> deploymentId, pkg |-> pkg, packageHistory |-> <<>>,
     pc |-> "getPackageHistory", err |-> OK]

CommitStep(r, s) ==
    /\ requests' = (requests \ {r}) \cup {s}
    /\ UNCHANGED <<accountDocs, appDocs, appPointerDocs, deploymentDocs, deploymentInfoDocs,
                   createdUnder, last, lastArgs, returned, commitRun, keyVars, setupVars>>

Settled(r, err) == [r EXCEPT !.pc = "done", !.err = err]

\* Lines 588-589.
StartCommitPackage(id, accountId, appId, deploymentId, pkg) ==
    /\ \A r \in requests : r.id # id
    /\ CommitStep(CommitRequest(id, accountId, appId, deploymentId, pkg),
                  CommitRequest(id, accountId, appId, deploymentId, pkg))
    /\ UNCHANGED <<blobs, detached>>

\* Lines 589-593: getPackageHistory, then the label from the history read.
CommitGetPackageHistory(r) ==
    /\ r.pc = "getPackageHistory"
    /\ UNCHANGED <<blobs, detached>>
    /\ LET err == GetPackageHistoryErr(r.accountId, r.appId, r.deploymentId)
       IN  IF err # OK THEN CommitStep(r, Settled(r, err))
           ELSE LET packageHistory == GetPackageHistoryValue(r.deploymentId)
                IN  IF GetNextLabelErr(packageHistory) # OK
                    THEN CommitStep(r, Settled(r, GetNextLabelErr(packageHistory)))
                    ELSE CommitStep(r, [r EXCEPT !.pc = "getAccount",
                                                 !.packageHistory = packageHistory,
                                                 !.pkg.label = GetNextLabel(packageHistory)])

\* Lines 593-609: getAccount, then the new history is built in memory.
CommitGetAccount(r) ==
    /\ r.pc = "getAccount"
    /\ UNCHANGED <<blobs, detached>>
    /\ IF GetAccountErr(r.accountId) # OK
       THEN CommitStep(r, Settled(r, GetAccountErr(r.accountId)))
       ELSE LET committed == [r.pkg EXCEPT !.releasedBy = accountDocs[r.accountId].email]
            IN  CommitStep(r, [r EXCEPT !.pc = "updatePackageHistory",
                                        !.pkg = committed,
                                        !.packageHistory =
                                            CommittedHistory(r.packageHistory, committed)])

\* Line 611 and lines 656-663: updatePackageHistory with the history built; its
\* updateDeployment is started and not awaited, the blob is overwritten.
CommitUpdatePackageHistory(r) ==
    /\ r.pc = "updatePackageHistory"
    /\ LET err == GetDeploymentErr(r.accountId, r.appId, r.deploymentId)
       IN  IF err # OK
           THEN /\ CommitStep(r, Settled(r, err))
                /\ UNCHANGED <<blobs, detached>>
           ELSE /\ detached' = detached \cup
                       {Detached(r.accountId, r.appId,
                                 TailDeployment(deploymentDocs[r.deploymentId],
                                                r.deploymentId, r.packageHistory))}
                /\ blobs' = Put(blobs, r.deploymentId, Stringify(r.packageHistory))
                /\ CommitStep(r, Settled(r, OK))

DoStartCommitPackage ==
    \E id \in CommitIds, appId \in DOMAIN appDocs, deploymentId \in DeploymentIds :
        StartCommitPackage(id, 1, appId, deploymentId,
                           Package(Undefined, Undefined, Undefined))

DoCommitStep ==
    \E r \in requests :
        \/ CommitGetPackageHistory(r)
        \/ CommitGetAccount(r)
        \/ CommitUpdatePackageHistory(r)

NextCommitConc ==
    \/ DoAddAccount
    \/ DoAddFirstApp
    \/ DoAddDeployment
    \/ DoStartCommitPackage
    \/ DoCommitStep
    \/ DoDetached

SpecCommitConc == Init /\ [][NextCommitConc]_vars

-----------------------------------------------------------------------------
(* SpecPartial: addApp and addDeployment with a backend call that fails. A call is
   given the step at which the backend fails (0: none) and the code of the error; a
   write that fails is not applied. *)

\* addApp, lines 186-196: 1 getAccount, 2 set of the app, 3 set of the pointer.
AddAppSteps == 0..3
\* addDeployment, lines 461-476: 1 getApp, 2 set of the deployment, 3 set of the
\* deploymentInfo entry, 4 save of the blob.
AddDeploymentSteps == 0..4

AddDeploymentWritesInfoFirst(step) ==
    IF step = 0 THEN {"deployment", "deploymentInfo", "blob"}
    ELSE IF step = 4 THEN {"deployment", "deploymentInfo"}
    ELSE IF step = 3 THEN {"deploymentInfo"}
    ELSE {}

\* The writes of addApp that are done when the backend fails at the step: each then
\* runs only when the one before it resolved.
AddAppWrites(step) ==
    IF step = 0 THEN {"app", "appPointer"}
    ELSE IF step = 3 THEN {"app"}
    ELSE {}

\* The same for addDeployment.
AddDeploymentWrites(step) ==
    IF step = 0 THEN {"deployment", "deploymentInfo", "blob"}
    ELSE IF step = 4 THEN {"deployment", "deploymentInfo"}
    ELSE IF step = 3 THEN {"deployment"}
    ELSE {}

ReplyPartial(op, err, accountId, id, step) ==
    /\ last' = Result(op, err)
    /\ lastArgs' = [accountId |-> accountId, id |-> id, step |-> step]
    /\ returned' = None
    /\ UNCHANGED <<accountDocs, detached, commitRun, requests, keyVars, setupVars>>

\* addApp with the backend failing at the step.
AddAppWithFault(id, accountId, app, step, code) ==
    /\ id \notin DOMAIN appDocs
    /\ UNCHANGED <<deploymentDocs, deploymentInfoDocs, blobs, createdUnder>>
    /\ IF step = 1 \/ GetAccountErr(accountId) # OK
       THEN /\ ReplyPartial("addApp",
                            IF step = 1 THEN gcpErrorHandler(BackendError(code))
                            ELSE GetAccountErr(accountId),
                            accountId, id, 1)
            /\ UNCHANGED <<appDocs, appPointerDocs>>
       ELSE LET doc == [id |-> id, name |-> app.name,
                        collaborators |-> NewAppCollaborators(accountDocs[accountId],
                                                              accountId, app.collaborators)]
            IN  /\ appDocs' = IF "app" \in AddAppWrites(step)
                              THEN Put(appDocs, id, doc) ELSE appDocs
                /\ appPointerDocs' = IF "appPointer" \in AddAppWrites(step)
                                     THEN appPointerDocs \cup {AppPointer(accountId, id)}
                                     ELSE appPointerDocs
                /\ ReplyPartial("addApp",
                                IF step = 0 THEN OK ELSE gcpErrorHandler(BackendError(code)),
                                accountId, id, step)

\* addDeployment with the backend failing at the step.
AddDeploymentWithFault(id, accountId, appId, deployment, step, code) ==
    /\ id \notin DOMAIN deploymentDocs
    /\ UNCHANGED <<appDocs, appPointerDocs>>
    /\ IF step = 1 \/ GetAppErr(accountId, appId) # OK
       THEN /\ ReplyPartial("addDeployment",
                            IF step = 1 THEN gcpErrorHandler(BackendError(code))
                            ELSE GetAppErr(accountId, appId),
                            accountId, id, 1)
            /\ UNCHANGED <<deploymentDocs, deploymentInfoDocs, blobs, createdUnder>>
       ELSE /\ deploymentDocs' =
                   IF "deployment" \in AddDeploymentWrites(step)
                   THEN Put(deploymentDocs, id, [deployment EXCEPT !.id = id])
                   ELSE deploymentDocs
            /\ createdUnder' =
                   IF "deployment" \in AddDeploymentWrites(step)
                   THEN Put(createdUnder, id, appId) ELSE createdUnder
            /\ deploymentInfoDocs' =
                   IF "deploymentInfo" \in AddDeploymentWrites(step)
                   THEN Put(deploymentInfoDocs, deployment.key,
                            [appId |-> appId, deploymentId |-> id])
                   ELSE deploymentInfoDocs
            /\ blobs' = IF "blob" \in AddDeploymentWrites(step)
                        THEN Put(blobs, id, Stringify(<<>>)) ELSE blobs
            /\ ReplyPartial("addDeployment",
                            IF step = 0 THEN OK ELSE gcpErrorHandler(BackendError(code)),
                            accountId, id, step)

\* getApps as a call of its own, lines 200-232.
GetAppsCall(accountId) ==
    /\ last' = Result("getApps", GetAppsErrIn(appDocs, appPointerDocs, accountId))
    /\ lastArgs' = [accountId |-> accountId]
    /\ returned' = IF GetAppsErrIn(appDocs, appPointerDocs, accountId) = OK
                   THEN GetAppsIn(appDocs, appPointerDocs, accountId)
                   ELSE None
    /\ UNCHANGED <<accountDocs, appDocs, appPointerDocs, depVars, commitRun, requests,
                   keyVars, setupVars>>

DoAddAppWithFault ==
    /\ DOMAIN appDocs # AppIds
    /\ \E accountId \in AccountIds, step \in AddAppSteps, code \in FaultCodes :
          AddAppWithFault(FreshAppId, accountId,
                          [name |-> NameOf(1), collaborators |-> EmptyMap], step, code)

DoAddDeploymentWithFault ==
    /\ DOMAIN deploymentDocs # KeyedDeploymentIds
    /\ \E accountId \in AccountIds, appId \in DOMAIN appDocs,
          deployment \in KeyedDeploymentInputs, step \in AddDeploymentSteps,
          code \in FaultCodes :
          AddDeploymentWithFault(FreshKeyedDeploymentId, accountId, appId, deployment,
                                 step, code)

DoGetApps == \E accountId \in AccountIds : GetAppsCall(accountId)

NextPartial ==
    \/ DoAddAccount
    \/ DoAddAppWithFault
    \/ DoAddDeploymentWithFault
    \/ DoGetApp
    \/ DoGetApps

SpecPartial == Init /\ [][NextPartial]_vars

-----------------------------------------------------------------------------
(* SpecList: the collaborator operations together with getApps as a call of its own. *)

NextList ==
    \/ DoAddAccount
    \/ DoAddApp
    \/ DoAddCollaborator
    \/ DoRemoveCollaborator
    \/ DoGetApps

SpecList == Init /\ [][NextList]_vars

-----------------------------------------------------------------------------
(* Properties of the collaborator protocol. *)

\* The accounts with an AppPointer for the app, and the accounts in its map.
PointerAccounts(appId) == {p.accountId : p \in {q \in appPointerDocs : q.appId = appId}}
MapAccounts(appId) ==
    {appDocs[appId].collaborators[e].accountId : e \in DOMAIN appDocs[appId].collaborators}

CollaboratorOps == {"addApp", "addCollaborator", "removeCollaborator", "transferApp"}

\* C1: after every successful addApp, addCollaborator, removeCollaborator or
\* transferApp, the accounts with a pointer for an app are the accounts in its map.
PointersMatchCollaborators ==
    (last.op \in CollaboratorOps /\ last.err = OK)
        => \A appId \in DOMAIN appDocs : PointerAccounts(appId) = MapAccounts(appId)

\* C3: a successful addApp persists an app whose map is the single entry of the
\* creating account, as Owner, under its e-mail, whatever map the caller supplied,
\* and creates the pointer; for an unregistered account it fails NotFound and
\* persists nothing.
AddAppOwnerOnly ==
    [][\A id \in AppIds, accountId \in AccountIds, app \in AppInputs :
        AddApp(id, accountId, app) =>
            IF accountId \in DOMAIN accountDocs
            THEN /\ last'.err = OK
                 /\ DOMAIN appDocs' = DOMAIN appDocs \cup {id}
                 /\ DOMAIN appDocs'[id].collaborators = {accountDocs[accountId].email}
                 /\ \A e \in DOMAIN appDocs'[id].collaborators :
                        /\ appDocs'[id].collaborators[e].accountId = accountId
                        /\ appDocs'[id].collaborators[e].permission = "Owner"
                 /\ appPointerDocs' = appPointerDocs \cup {AppPointer(accountId, id)}
            ELSE /\ last'.err = "NotFound"
                 /\ appDocs' = appDocs
                 /\ appPointerDocs' = appPointerDocs]_vars

\* An addApp by account 2 has succeeded (one of the supplied maps names account 1).
AddAppOwnerOnlyWitness ==
    /\ last = Result("addApp", OK)
    /\ \E id \in DOMAIN appDocs :
          appDocs[id].collaborators = Put(EmptyMap, EmailOf(2), Collaborator(2, "Owner", FALSE))

\* A removeCollaborator step whose e-mail is the current Owner of the app.
RemoveOwnerStep(accountId, appId, email) ==
    /\ appId \in DOMAIN appDocs
    /\ email \in OwnerEmails(appDocs[appId])
    /\ RemoveCollaborator(accountId, appId, email)

\* C4: removeCollaborator with the e-mail of the app's current Owner always fails
\* with Invalid and leaves the collaborator map and the pointers as they were.
RemoveOwnerAlwaysInvalid ==
    [][\A accountId \in AccountIds, appId \in AppIds, email \in Emails :
        RemoveOwnerStep(accountId, appId, email) =>
            /\ last'.err = "Invalid"
            /\ appDocs' = appDocs
            /\ appPointerDocs' = appPointerDocs]_vars

\* C4, amended: removeCollaborator with the e-mail of the app's current Owner always
\* fails, with Invalid when the caller is a collaborator of the app and with NotFound
\* when it is not, and leaves the collaborator map and the pointers as they were.
RemoveOwnerFails ==
    [][\A accountId \in AccountIds, appId \in AppIds, email \in Emails :
        RemoveOwnerStep(accountId, appId, email) =>
            /\ last'.err = IF accountId \in MapAccounts(appId) THEN "Invalid" ELSE "NotFound"
            /\ appDocs' = appDocs
            /\ appPointerDocs' = appPointerDocs]_vars

\* A removeCollaborator was rejected with Invalid while the app has a collaborator
\* beside its owner.
RemoveOwnerFailsWitness ==
    /\ last = Result("removeCollaborator", "Invalid")
    /\ \E appId \in DOMAIN appDocs : Cardinality(MapAccounts(appId)) = 2

\* The apps whose collaborator map names the account.
AppsOf(accountId) == {i \in DOMAIN appDocs : accountId \in MapAccounts(i)}

\* C5: transferApp(A, app, email of B), A a collaborator of app, when the apps of B
\* include one with the name of app, fails with AlreadyExists and writes nothing.
TransferNameCollisionRejected ==
    [][\A accountId \in AccountIds, appId \in AppIds, email \in Emails :
        \A targetId \in AccountsByEmail(email) :
            ( /\ GetAppErr(accountId, appId) = OK
              /\ \E i \in AppsOf(targetId) : appDocs[i].name = appDocs[appId].name
              /\ TransferApp(accountId, appId, email) )
            => /\ last'.err = "AlreadyExists"
               /\ appDocs' = appDocs
               /\ appPointerDocs' = appPointerDocs]_vars

\* C2: whatever the interleaving of addApp, addCollaborator, removeCollaborator and
\* transferApp requests, every persisted app has exactly one entry with permission
\* Owner.
ExactlyOneOwner ==
    \A i \in DOMAIN appDocs : Cardinality(OwnerEmails(appDocs[i])) = 1

\* A transferApp has set the app and not yet returned, and the persisted owner is
\* no longer its target: another request has overwritten the document from an
\* older read.
ExactlyOneOwnerWitness ==
    \E r \in requests :
        /\ r.op = "transferApp"
        /\ r.pc = "addAppPointer"
        /\ OwnerEmails(appDocs[r.appId]) # {r.email}

-----------------------------------------------------------------------------
(* Properties of the package history. *)

StoredHistory(deploymentId) == Parse(blobs[deploymentId])

\* The labels v<from>..v<to>, in order.
Labels(from, to) == [i \in 1..(to - from + 1) |-> Label(from + i - 1)]
LabelsOf(history) == [i \in 1..Len(history) |-> history[i].label]
Max(a, b) == IF a > b THEN a ELSE b

\* C6: n commitPackage calls in a row on a freshly added deployment all succeed,
\* the n-th returns the label v<n>, and the stored history then holds the last
\* MAX_PACKAGE_HISTORY_LENGTH of the labels v1..v<n>, in order.
CommitsLabelInOrder ==
    \A d \in DOMAIN commitRun :
        commitRun[d].n >= 1 =>
            /\ commitRun[d].ok
            /\ (last = Result("commitPackage", OK) /\ lastArgs.deploymentId = d)
                    => returned.label = Label(commitRun[d].n)
            /\ LabelsOf(StoredHistory(d)) =
                    Labels(Max(1, commitRun[d].n - MAX_PACKAGE_HISTORY_LENGTH + 1),
                           commitRun[d].n)

\* C7: in a history built by commitPackage and clearPackageHistory calls, every
\* entry but the last has rollout null.
OnlyLastHasRollout ==
    \A d \in DOMAIN blobs :
        \A i \in 1..(Len(StoredHistory(d)) - 1) : StoredHistory(d)[i].rollout = Null

\* A package committed with a rollout is no longer the last entry, and the last
\* entry carries a rollout.
OnlyLastHasRolloutWitness ==
    \E d \in DOMAIN blobs :
        /\ Len(StoredHistory(d)) >= 2
        /\ StoredHistory(d)[Len(StoredHistory(d))].rollout = <<"2", "5">>
        /\ d \in DOMAIN commitRun
        /\ commitRun[d].n >= 2

\* C8: the stored history of every deployment has at most
\* MAX_PACKAGE_HISTORY_LENGTH entries.
HistoryAtMostMax ==
    \A d \in DOMAIN blobs : Len(StoredHistory(d)) <= MAX_PACKAGE_HISTORY_LENGTH

\* C8, amended: a stored history has more than MAX_PACKAGE_HISTORY_LENGTH entries
\* only when it is, entry for entry, a history that long that was passed to
\* updatePackageHistory; what addDeployment, clearPackageHistory and commitPackage
\* store has at most MAX_PACKAGE_HISTORY_LENGTH entries.
HistoryAtMostMaxUnlessPassed ==
    \A d \in DOMAIN blobs :
        \/ Len(StoredHistory(d)) <= MAX_PACKAGE_HISTORY_LENGTH
        \/ StoredHistory(d) \in HistoryInputs

\* A commitPackage on a full history has dropped the oldest entry.
HistoryTrimmedWitness ==
    /\ last = Result("commitPackage", OK)
    /\ Len(StoredHistory(lastArgs.deploymentId)) = MAX_PACKAGE_HISTORY_LENGTH
    /\ StoredHistory(lastArgs.deploymentId)[1].label # Label(1)

\* C9: a getPackageHistory that follows a successful updatePackageHistory(h), by
\* the same account on the same deployment, succeeds and returns h.
UpdateThenGetRoundTrip ==
    [][( /\ last = Result("updatePackageHistory", OK)
         /\ GetPackageHistory(lastArgs.accountId, lastArgs.appId, lastArgs.deploymentId) )
       => /\ last'.err = OK
          /\ returned' = lastArgs.history]_vars

\* C10: after a successful clearPackageHistory, getPackageHistory on the deployment
\* succeeds with the empty sequence and the deployment document has no package.
ClearThenEmpty ==
    last = Result("clearPackageHistory", OK)
        => /\ GetPackageHistoryErr(lastArgs.accountId, lastArgs.appId,
                                   lastArgs.deploymentId) = OK
           /\ GetPackageHistoryValue(lastArgs.deploymentId) = <<>>
           /\ deploymentDocs[lastArgs.deploymentId].package = NoPackage

-----------------------------------------------------------------------------
(* Properties of the access keys. *)

\* C11: getAccountIdFromAccessKey(name) fails NotFound when no access key has the
\* name, Expired when the key it finds has expires <= now, and returns the createdBy
\* of that key otherwise; it changes no access key document.
AccessKeyLookup ==
    [][\A name \in KeyNames :
        GetAccountIdFromAccessKey(name) =>
            /\ accessKeyDocs' = accessKeyDocs
            /\ IF \A k \in DOMAIN accessKeyDocs : accessKeyDocs[k].name # name
               THEN last'.err = "NotFound"
               ELSE /\ lastArgs'.key \in DOMAIN accessKeyDocs
                    /\ accessKeyDocs[lastArgs'.key].name = name
                    /\ IF now >= accessKeyDocs[lastArgs'.key].expires
                       THEN last'.err = "Expired"
                       ELSE /\ last'.err = OK
                            /\ returned' = accessKeyDocs[lastArgs'.key].createdBy]_vars

\* A lookup at the very time the key expires was rejected as expired.
AccessKeyLookupWitness ==
    /\ last = Result("getAccountIdFromAccessKey", "Expired")
    /\ accessKeyDocs[lastArgs.key].expires = now

-----------------------------------------------------------------------------
(* Properties of the deployments and their keys. *)

\* C12: no two deployment documents carry the same key, and no step (an
\* addDeployment with a key already indexed in particular) replaces the
\* deploymentInfo entry of a key.
DeploymentKeysUnique ==
    [][/\ \A d1 \in DOMAIN deploymentDocs', d2 \in DOMAIN deploymentDocs' :
              deploymentDocs'[d1].key = deploymentDocs'[d2].key => d1 = d2
       /\ \A k \in DOMAIN deploymentInfoDocs :
              deploymentInfoDocs'[k] = deploymentInfoDocs[k]]_vars

\* C14: a getDeployment, updateDeployment or getPackageHistory succeeds only for a
\* collaborator of the app named in the call and only on a deployment that was
\* added under that app.
DeploymentOnlyThroughItsApp ==
    (last.op \in {"getDeployment", "updateDeployment", "getPackageHistory"} /\ last.err = OK)
        => /\ lastArgs.accountId \in MapAccounts(lastArgs.appId)
           /\ createdUnder[lastArgs.deploymentId] = lastArgs.appId

-----------------------------------------------------------------------------
(* Properties of getApp. *)

AppStores == <<accountDocs, appDocs, appPointerDocs, deploymentDocs, deploymentInfoDocs, blobs>>

IsCollaborator(accountId, appId) ==
    appId \in DOMAIN appDocs /\ accountId \in MapAccounts(appId)

\* C13: getApp fails NotFound when the app does not exist or the account is in no
\* entry of its collaborator map; when it succeeds, the app returned has
\* isCurrentAccount on exactly the entries of that account, and the documents are
\* left as they were. An operation that authorizes through getApp writes nothing
\* when the caller is not a collaborator.
GetAppAuthorizes ==
    [][/\ \A accountId \in AccountIds, appId \in AppIds :
            GetAppCall(accountId, appId) =>
                /\ UNCHANGED AppStores
                /\ IF ~IsCollaborator(accountId, appId)
                   THEN last'.err = "NotFound"
                   ELSE /\ last'.err = OK
                        /\ \A e \in DOMAIN returned'.collaborators :
                              returned'.collaborators[e].isCurrentAccount
                                  <=> (returned'.collaborators[e].accountId = accountId)
       /\ \A accountId \in AccountIds, appId \in AppIds :
            ~IsCollaborator(accountId, appId) =>
                \A email \in Emails :
                    (\/ AddCollaborator(accountId, appId, email)
                     \/ RemoveCollaborator(accountId, appId, email)
                     \/ TransferApp(accountId, appId, email)
                     \/ \E app \in RenamedApps(appId) : UpdateApp(accountId, app))
                        => UNCHANGED AppStores]_vars

-----------------------------------------------------------------------------
(* Properties of transferApp on a target that is already a collaborator. *)

\* An app other than appId that the target's pointers name carries the name of appId.
NameCollision(targetId, appId) ==
    \E i \in PointedApps(appPointerDocs, targetId) \ {appId} :
        i \in DOMAIN appDocs /\ appDocs[i].name = appDocs[appId].name

\* C18: a transferApp to a target that is already a non-owner collaborator of the
\* app, with no name collision, succeeds: the target's entry becomes Owner, the
\* previous owner becomes Collaborator, the other entries and the pointers stay as
\* they were. A transferApp rejected with AlreadyExists without a name collision has
\* the app's Owner as its target.
TransferPromotesCollaborator ==
    [][\A accountId \in AccountIds, appId \in AppIds, email \in Emails :
          (/\ TransferApp(accountId, appId, email)
           /\ IsCollaborator(accountId, appId)
           /\ AccountsByEmail(email) # {}
           /\ \A targetId \in AccountsByEmail(email) :
                 /\ GetAppsErrIn(appDocs, appPointerDocs, targetId) = OK
                 /\ ~NameCollision(targetId, appId)
           /\ OwnerEmails(appDocs[appId]) # {})
          => LET before == appDocs[appId].collaborators
                 after == appDocs'[appId].collaborators
             IN  /\ (email \in DOMAIN before /\ before[email].permission = "Collaborator")
                        => /\ last'.err = OK
                           /\ DOMAIN after = DOMAIN before
                           /\ after[email].permission = "Owner"
                           /\ \A e \in OwnerEmails(appDocs[appId]) :
                                 after[e].permission = "Collaborator"
                           /\ \A e \in DOMAIN before \ ({email} \cup OwnerEmails(appDocs[appId])) :
                                 after[e].permission = before[e].permission
                           /\ \A e \in DOMAIN before : after[e].accountId = before[e].accountId
                           /\ appPointerDocs' = appPointerDocs
                 /\ last'.err = "AlreadyExists"
                        => (email \in DOMAIN before /\ before[email].permission = "Owner")]_vars

-----------------------------------------------------------------------------
(* Properties of the deployment document under the package operations. *)

TailOfStoredHistory(deploymentId) ==
    SomePackage(StoredHistory(deploymentId)[Len(StoredHistory(deploymentId))])

\* C19: when commitPackage or updatePackageHistory reports success, the package field
\* of the deployment document equals the last entry of the stored history; when
\* clearPackageHistory reports success, the document has no package.
PackageWrittenOnSuccess ==
    [][\A accountId \in AccountIds, appId \in AppIds, d \in DeploymentIds :
          /\ \A history \in HistoryInputs :
                (UpdatePackageHistory(accountId, appId, d, history) /\ last'.err = OK)
                    => deploymentDocs'[d].package = TailOfStoredHistory(d)'
          /\ \A pkg \in PackageInputs :
                (CommitPackage(accountId, appId, d, pkg) /\ last'.err = OK)
                    => deploymentDocs'[d].package = TailOfStoredHistory(d)'
          /\ (ClearPackageHistory(accountId, appId, d) /\ last'.err = OK)
                => deploymentDocs'[d].package = NoPackage]_vars

\* C20: a step of updatePackageHistory or commitPackage, the write to the deployment
\* document they start included, changes no document but that of the deployment and
\* in it only the package: key and name stay, the deploymentInfo index stays, and a
\* getDeployment that succeeded before succeeds after.
PackageWriteFrame ==
    [][((blobs' # blobs \/ detached' # detached) /\ last'.op # "addDeployment")
          => /\ UNCHANGED <<accountDocs, appDocs, appPointerDocs, deploymentInfoDocs>>
             /\ DOMAIN deploymentDocs' = DOMAIN deploymentDocs
             /\ \A d \in DOMAIN deploymentDocs :
                   /\ deploymentDocs'[d].id = deploymentDocs[d].id
                   /\ deploymentDocs'[d].key = deploymentDocs[d].key
                   /\ deploymentDocs'[d].name = deploymentDocs[d].name
                   /\ \A accountId \in AccountIds, appId \in AppIds :
                         GetDeploymentErr(accountId, appId, d) = OK
                             => GetDeploymentErr(accountId, appId, d)' = OK]_vars

-----------------------------------------------------------------------------
(* Properties of setup, the health check and the errors reported. *)

\* A step in which an operation reports to its caller.
Reports ==
    \/ RemoveApp
    \/ UpdateAppWithoutId
    \/ \E request \in requests : RunOp(request)

\* C15: every failure reported to a caller carries a kind of the taxonomy, never a
\* raw error; the translation gives a kind for every backend error and leaves an
\* error that has a kind as it is.
ErrorsCarryKind ==
    /\ last.err \in ErrorKinds \cup {OK}
    /\ \A code \in FaultCodes : gcpErrorHandler(BackendError(code)) \in ErrorKinds
    /\ \A kind \in ErrorKinds : gcpErrorHandler(StorageError(kind)) = kind

\* C16: the provisioning calls of setup are issued once and its outcome, once there,
\* stays; an operation issues backend calls only when setup has resolved and its
\* provisioning calls have landed; after a failed setup every operation fails without
\* a backend call; a provisioning call answered with code 409 does not fail setup.
SetupOnceAndAwaited ==
    [][/\ provisioning' \subseteq provisioning \cup {"saveHealthBlob"}
       /\ ("createBucket" \notin provisioning => provisioning' \subseteq provisioning)
       /\ (setup.state # "pending" => setup' = setup)
       /\ (Reports /\ lastArgs'.calls > 0)
              => (setup.state = "resolved" /\ provisioning = {})
       /\ (Reports /\ setup.state = "rejected")
              => (last'.err # OK /\ lastArgs'.calls = 0)
       /\ SetHealthDocLands("409") => setup'.state = "resolved"
       /\ CreateBucketLands("409") => setup' = setup]_vars

\* C17: checkHealth succeeds only when the sentinel document exists and the sentinel
\* blob holds "health", and then unless a backend call fails; the blob is downloaded
\* only when the document exists; every failure it reports is ConnectionFailed.
CheckHealthTwoPhases ==
    [][RunOp([op |-> "checkHealth"])
          => /\ last'.err = OK => (health.doc /\ health.bucket /\ health.blob = <<"health">>)
             /\ (health.doc /\ health.bucket /\ health.blob = <<"health">>
                 /\ setup.state = "resolved")
                    => (last'.err = OK \/ lastArgs'.raw # "none"
                        \/ last'.err = "ConnectionFailed")
             /\ lastArgs'.calls = 2 => health.doc
             /\ last'.err # OK => last'.err = "ConnectionFailed"]_vars

-----------------------------------------------------------------------------
(* Properties of updatePackageHistory without a history. *)

\* C21: updatePackageHistory with a null or empty history reports Invalid, whoever
\* calls it and whatever the deployment, and leaves the history blob, the deployment
\* documents and the calls in progress as they were; a stored history that is not
\* empty becomes empty only in a successful clearPackageHistory on its deployment.
EmptyUpdateIsInvalid ==
    [][/\ \A accountId \in AccountIds, appId \in AppIds, d \in DeploymentIds :
            (\/ UpdatePackageHistory(accountId, appId, d, <<>>)
             \/ UpdatePackageHistoryWithNull(accountId, appId, d))
                => /\ last' = Result("updatePackageHistory", "Invalid")
                   /\ UNCHANGED <<blobs, deploymentDocs, deploymentInfoDocs, detached>>
       /\ \A d \in DOMAIN blobs :
            (Len(StoredHistory(d)) > 0 /\ Len(StoredHistory(d)') = 0)
                => /\ last' = Result("clearPackageHistory", OK)
                   /\ lastArgs'.deploymentId = d]_vars

EmptyUpdateIsInvalidWitness ==
    /\ last = Result("updatePackageHistory", "Invalid")
    /\ \E d \in DOMAIN blobs : Len(StoredHistory(d)) > 0

-----------------------------------------------------------------------------
(* Properties of the writes in several steps. *)

\* C22: an addApp or addDeployment whose backend fails at a step reports the error of
\* that step, keeps the writes of the steps before it and does none of the later
\* ones: the app without its pointer, the deployment without its deploymentInfo
\* entry, the entry without the blob. No deploymentInfo entry names a deployment
\* that has no document. After an addApp that failed at the pointer the owner's
\* getApp succeeds and the owner's getApps does not list the app.
NoRollback ==
    /\ \A k \in DOMAIN deploymentInfoDocs :
          deploymentInfoDocs[k].deploymentId \in DOMAIN deploymentDocs
    /\ (last.op = "addApp" /\ last.err # OK)
          => /\ lastArgs.step # 0
             /\ (lastArgs.id \in DOMAIN appDocs) = (lastArgs.step = 3)
             /\ AppPointer(lastArgs.accountId, lastArgs.id) \notin appPointerDocs
             /\ lastArgs.step = 3
                   => /\ GetAppErr(lastArgs.accountId, lastArgs.id) = OK
                      /\ lastArgs.id \notin PointedApps(appPointerDocs, lastArgs.accountId)
    /\ (last.op = "addApp" /\ last.err = OK)
          => /\ lastArgs.id \in DOMAIN appDocs
             /\ AppPointer(lastArgs.accountId, lastArgs.id) \in appPointerDocs
    /\ (last.op = "addDeployment" /\ last.err # OK)
          => /\ lastArgs.step # 0
             /\ (lastArgs.id \in DOMAIN deploymentDocs) = (lastArgs.step > 2)
             /\ (\E k \in DOMAIN deploymentInfoDocs :
                    deploymentInfoDocs[k].deploymentId = lastArgs.id) = (lastArgs.step > 3)
             /\ lastArgs.id \notin DOMAIN blobs
    /\ (last.op = "addDeployment" /\ last.err = OK)
          => /\ lastArgs.id \in DOMAIN deploymentDocs
             /\ lastArgs.id \in DOMAIN blobs

NoRollbackWitness ==
    /\ last.op = "addDeployment"
    /\ last.err # OK
    /\ lastArgs.step = 3
    /\ lastArgs.id \in DOMAIN deploymentDocs
    /\ \A k \in DOMAIN deploymentInfoDocs : deploymentInfoDocs[k].deploymentId # lastArgs.id
    /\ \E i \in DOMAIN appDocs, a \in AccountIds :
          /\ GetAppErr(a, i) = OK
          /\ AppPointer(a, i) \notin appPointerDocs

-----------------------------------------------------------------------------
(* Properties of getApps. *)

\* The apps an account's pointers name that exist and have the account in their map.
ListedApps(accountId) ==
    {i \in PointedApps(appPointerDocs, accountId) : IsCollaborator(accountId, i)}

\* C23: getApps succeeds whatever the pointers, and returns the apps the account's
\* pointers name and the account belongs to: none without a pointer, never an app
\* whose map lacks the account, a stale pointer being left out.
GetAppsFiltersStale ==
    [][\A accountId \in AccountIds :
          GetAppsCall(accountId)
              => /\ last'.err = OK
                 /\ {app.id : app \in returned'} = ListedApps(accountId)
                 /\ UNCHANGED AppStores]_vars

-----------------------------------------------------------------------------
(* Properties of the ownership of access keys. *)

\* C24: getAccessKey, removeAccessKey and updateAccessKey by an account that did not
\* create the key, or on an id no key has, report NotFound and leave the access key
\* documents unchanged; getAccessKeys returns exactly the keys created by the
\* account; a key that is added has the adding account as its createdBy, and no
\* step changes the createdBy of a key that exists.
AccessKeysScopedToCreator ==
    [][/\ \A accountId \in AccountIds, k \in AccessKeyIds :
            (/\ AccessKeyErr(accountId, k) # OK
             /\ \/ GetAccessKey(accountId, k)
                \/ RemoveAccessKey(accountId, k)
                \/ \E accessKey \in AccessKeyUpdates :
                      accessKey.id = k /\ UpdateAccessKey(accountId, accessKey))
                => (last'.err = "NotFound" /\ accessKeyDocs' = accessKeyDocs)
       /\ \A accountId \in AccountIds :
            GetAccessKeys(accountId)
                => /\ last'.err = OK
                   /\ \A k \in DOMAIN accessKeyDocs :
                         (accessKeyDocs[k] \in returned')
                             <=> (accessKeyDocs[k].createdBy = accountId)
       /\ \A id \in AccessKeyIds, accountId \in AccountIds, accessKey \in AccessKeyInputs :
            AddAccessKey(id, accountId, accessKey)
                => accessKeyDocs'[id].createdBy = accountId
       /\ \A k \in DOMAIN accessKeyDocs \cap DOMAIN accessKeyDocs' :
            accessKeyDocs'[k].createdBy = accessKeyDocs[k].createdBy]_vars

-----------------------------------------------------------------------------
(* Properties of commitPackage requests in flight together. *)

SucceededCommits(d) ==
    {r \in requests : r.pc = "done" /\ r.err = OK /\ r.deploymentId = d}

\* C25: the commitPackage requests on a deployment that reported success returned
\* labels that differ from one another, and once every request has settled the
\* stored history holds one entry for each of them, labelled v1, v2, ... in order.
NoReleaseLost ==
    \A d \in DOMAIN blobs :
        /\ \A r1 \in SucceededCommits(d), r2 \in SucceededCommits(d) :
              r1.id # r2.id => r1.pkg.label # r2.pkg.label
        /\ (\A r \in requests : r.pc = "done")
              => LabelsOf(StoredHistory(d)) = Labels(1, Cardinality(SucceededCommits(d)))

-----------------------------------------------------------------------------
(* Properties of collaborator requests in flight together. *)

\* C26: once every addCollaborator, removeCollaborator and transferApp request has
\* finished, the accounts holding an AppPointer to an app are the accounts of its
\* collaborator map. addCollaborator writes the pointer of the account it adds and
\* only removeCollaborator deletes one, so a collaborator added with success, never
\* removed and missing from the map is an account with a pointer and no entry.
PointersMatchWhenQuiet ==
    requests = {} =>
        \A i \in DOMAIN appDocs : PointerAccounts(i) = MapAccounts(i)

====
